---- MODULE Spec2Model ----
(***************************************************************************)
(* The MyST language server's two caches and the events that maintain      *)
(* them: the Document Cache (DocCache: per-URI snapshots plus the          *)
(* notebook -> cell relation) and the Project Target Index                 *)
(* (projectDatabase: a collection of target records).                      *)
(*                                                                         *)
(* Spec       the server: document and notebook synchronisation events.    *)
(* SpecCache  the DocCache object alone, driven by arbitrary calls of its  *)
(*            public methods.                                              *)
(* SpecProject the server with scans of the project's files.               *)
(* SpecParse  the block parser: one document tokenized rule by rule.       *)
(* SpecMyst   the block parser on documents with MyST blocks and           *)
(*            definitions.                                                 *)
(* SpecScans  calls of analyzeProject that wait at their awaits while       *)
(*            others run.                                                  *)
(* SpecSettings the server of src/server/src/server.ts, whose parse awaits  *)
(*            the settings of the document.                                *)
(* SpecTerminator the custom block rules called in validation mode at a    *)
(*            line of a document.                                          *)
(***************************************************************************)
EXTENDS Integers, Sequences, FiniteSets, TLC

VARIABLES
  cache,      \* Server.cache: [data, parentToChildUri]
  db,         \* Server.db: the "targets" collection, in insertion order
  documents,  \* Server.documents: the URIs of the open text documents
  notebooks,  \* Server.notebooks: open notebook URI -> its cell URIs, in order
  lastEvent,  \* the handler (or method) that ran last, with its arguments
  state,      \* the StateBlock of the parse in progress, with its result
  pending,    \* the asynchronous calls that wait at an await
  settings    \* src/server/src/server.ts: hasConfigurationCapability and
              \* DocCache.settings, the promise of the settings of each URI

vars == <<cache, db, documents, notebooks, lastEvent, state, pending, settings>>

-----------------------------------------------------------------------------
(* Bounds and the universe of inputs *)

\* how many of the texts of TextList (of CacheTextList) the events draw from
MaxTexts == 3

Docs == {"d1"}
Notebooks == {"n1"}
Cells == {"c1", "c2"}
\* the cell documents of a notebook file: a cell URI identifies one cell of one notebook
CellsOf(nb) == Cells
Uris == Docs \cup Notebooks \cup Cells

\* the URIs the DocCache object is called with in SpecCache: c1 is a child
\* and a parent (also of itself), c2 can be a child of two parents
CacheUris == {"n1", "c1", "c2"}
CacheParents == {"n1", "c1"}
CacheChildren == {"c1", "c2"}

TargetLine(label) == [kind |-> "target", label |-> label, href |-> ""]
DefLine(label, href) == [kind |-> "def", label |-> label, href |-> href]
\* document texts, a sequence of source lines each: the empty text, "(a)=",
\* "[k]: /x", "[K]: /y" followed by "(a)=", and "(a)=" twice
TextList ==
  << <<>>,
     <<TargetLine("a")>>,
     <<DefLine("k", "/x")>>,
     <<DefLine("K", "/y"), TargetLine("a")>>,
     <<TargetLine("a"), TargetLine("a")>> >>
Texts == {TextList[i] : i \in {j \in DOMAIN TextList : j <= MaxTexts}}

-----------------------------------------------------------------------------
(* Sequence helpers *)

Range(s) == {s[i] : i \in DOMAIN s}

Contains(s, x) == \E i \in DOMAIN s : s[i] = x

RECURSIVE Remove(_, _)
Remove(s, x) ==
  IF s = <<>> THEN <<>>
  ELSE IF Head(s) = x THEN Remove(Tail(s), x)
       ELSE <<Head(s)>> \o Remove(Tail(s), x)

Restrict(f, S) == [x \in S |-> f[x]]

\* the sequences without repetition over the subsets of S
RECURSIVE Orderings(_)
Orderings(S) ==
  IF S = {} THEN {<<>>}
  ELSE UNION {{<<x>> \o o : o \in Orderings(S \ {x})} : x \in S}

OrderedSubsets(S) == UNION {Orderings(T) : T \in SUBSET S}

-----------------------------------------------------------------------------
(* parseTextDocument *)

\* markdown-it's normalizeReference: case-folds the label
normalizeReference(label) ==
  CASE label = "k" -> "K"
    [] label = "j" -> "J"
    [] OTHER -> label

\* a token without a source map has map = <<>>
HasMap(token) == token.map # <<>>

\* md.parse: block tokens in emission order. A "(label)=" line becomes one
\* myst_target token spanning that line; a reference definition emits no token.
RECURSIVE mdParseFrom(_, _)
mdParseFrom(text, line) ==
  IF line > Len(text) THEN <<>>
  ELSE LET l == text[line]
           rest == mdParseFrom(text, line + 1)
       IN IF l.kind = "target"
          THEN <<[type |-> "myst_target", content |-> l.label,
                  map |-> <<line - 1, line>>]>> \o rest
          ELSE rest

mdParse(text) == mdParseFrom(text, 1)

\* env.references after the parse: the reference rule stores a definition only
\* when its normalized label is not yet set. Entries are in insertion order.
RECURSIVE envReferences(_, _, _)
envReferences(text, line, refs) ==
  IF line > Len(text) THEN refs
  ELSE LET l == text[line]
           key == normalizeReference(l.label)
       IN IF l.kind = "def" /\ ~\E i \in DOMAIN refs : refs[i].key = key
          THEN envReferences(text, line + 1,
                 Append(refs, [key |-> key, href |-> l.href, title |-> ""]))
          ELSE envReferences(text, line + 1, refs)

\* the line -> token indexes map: token i (0-based) is listed under every line
\* of its map; a line no token spans has no entry
\* faulty variant: a token is listed under the first line of its map only
buildLineToTokenIndex_firstLine(tokens) ==
  LET spanned == {tokens[i].map[1] : i \in {k \in DOMAIN tokens : HasMap(tokens[k])}}
      RECURSIVE At1(_, _)
      At1(j, i) ==
        IF i > Len(tokens) THEN <<>>
        ELSE (IF HasMap(tokens[i]) /\ tokens[i].map[1] = j
              THEN <<i - 1>> ELSE <<>>) \o At1(j, i + 1)
  IN [j \in spanned |-> At1(j, 1)]

buildLineToTokenIndex(tokens) ==
  LET ends == {tokens[i].map[2] : i \in {k \in DOMAIN tokens : HasMap(tokens[k])}}
      spanned == {j \in 0..(IF ends = {} THEN 0 ELSE CHOOSE e \in ends : \A f \in ends : f <= e) :
                    \E i \in DOMAIN tokens :
                      HasMap(tokens[i]) /\ tokens[i].map[1] <= j /\ j < tokens[i].map[2]}
      RECURSIVE At(_, _)
      At(j, i) ==
        IF i > Len(tokens) THEN <<>>
        ELSE (IF HasMap(tokens[i]) /\ tokens[i].map[1] <= j /\ j < tokens[i].map[2]
              THEN <<i - 1>> ELSE <<>>) \o At(j, i + 1)
  IN [j \in spanned |-> At(j, 1)]

RECURSIVE targetsOf(_, _)
targetsOf(tokens, uri) ==
  IF tokens = <<>> THEN <<>>
  ELSE LET t == Head(tokens)
       IN (IF t.type = "myst_target" /\ HasMap(t)
           THEN <<[name |-> t.content, uri |-> uri, line |-> t.map[1]]>>
           ELSE <<>>) \o targetsOf(Tail(tokens), uri)

parseTextDocument(uri, text) ==
  LET tokens == mdParse(text)
  IN [tokens |-> tokens,
      lineToTokenIndex |-> buildLineToTokenIndex(tokens),
      definitions |-> envReferences(text, 1, <<>>),
      targets |-> targetsOf(tokens, uri)]

-----------------------------------------------------------------------------
(* class DocCache *)

\* the value a Map lookup gives for a missing key
undefined == [undefined |-> TRUE]

\* an empty Map
EmptyMap == [u \in {} |-> undefined]

NewDocCache == [data |-> EmptyMap, parentToChildUri |-> <<>>]

\* Map.has / Map.get on parentToChildUri, a sequence of [parent, children]
\* entries in insertion order, each child set in insertion order
HasParent(p2c, parent) == \E i \in DOMAIN p2c : p2c[i].parent = parent

ChildrenOf(p2c, parent) ==
  IF HasParent(p2c, parent)
  THEN p2c[CHOOSE i \in DOMAIN p2c : p2c[i].parent = parent].children
  ELSE <<>>

\* faulty variant: the entry of a parent is deleted as soon as uri is found in it
RECURSIVE DetachChild_dropsEntry(_, _)
DetachChild_dropsEntry(p2c, uri) ==
  IF p2c = <<>> THEN <<>>
  ELSE IF Contains(Head(p2c).children, uri)
       THEN DetachChild_dropsEntry(Tail(p2c), uri)
       ELSE <<Head(p2c)>> \o DetachChild_dropsEntry(Tail(p2c), uri)

\* faulty variant: an entry whose child set became empty is kept
RECURSIVE DetachChild_keepsEmpty(_, _)
DetachChild_keepsEmpty(p2c, uri) ==
  IF p2c = <<>> THEN <<>>
  ELSE <<[Head(p2c) EXCEPT !.children = Remove(@, uri)]>>
         \o DetachChild_keepsEmpty(Tail(p2c), uri)

\* the first loop of removeUri: take uri out of every child set that has it
\* and delete an entry whose set became empty
RECURSIVE DetachChild(_, _)
DetachChild(p2c, uri) ==
  IF p2c = <<>> THEN <<>>
  ELSE LET e == Head(p2c)
           rest == DetachChild(Tail(p2c), uri)
       IN IF Contains(e.children, uri)
          THEN IF Len(e.children) = 1
               THEN rest
               ELSE <<[e EXCEPT !.children = Remove(e.children, uri)]>> \o rest
          ELSE <<e>> \o rest

RECURSIVE DeleteParent(_, _)
DeleteParent(p2c, uri) ==
  IF p2c = <<>> THEN <<>>
  ELSE IF Head(p2c).parent = uri THEN DeleteParent(Tail(p2c), uri)
       ELSE <<Head(p2c)>> \o DeleteParent(Tail(p2c), uri)

\* faulty variant: the snapshots of the children are kept
removeUri_keepsChildren(c, uri) ==
  [data |-> Restrict(c.data, DOMAIN c.data \ {uri}),
   parentToChildUri |-> DeleteParent(DetachChild(c.parentToChildUri, uri), uri)]

\* faulty variant: the snapshots of the children of every parent are deleted
removeUri_allChildren(c, uri) ==
  LET p2c1 == DetachChild(c.parentToChildUri, uri)
      children == UNION {Range(p2c1[i].children) : i \in DOMAIN p2c1}
  IN [data |-> Restrict(c.data, DOMAIN c.data \ ({uri} \cup children)),
      parentToChildUri |-> DeleteParent(p2c1, uri)]

removeUri(c, uri) ==
  LET data1 == Restrict(c.data, DOMAIN c.data \ {uri})
      p2c1 == DetachChild(c.parentToChildUri, uri)
      children == Range(ChildrenOf(p2c1, uri))
      data2 == Restrict(data1, DOMAIN data1 \ children)
  IN [data |-> data2, parentToChildUri |-> DeleteParent(p2c1, uri)]

clear(c) == [c EXCEPT !.data = EmptyMap]

setParentToChildUri(c, parentUri, childUri) ==
  LET p2c0 == c.parentToChildUri
      p2c1 == IF HasParent(p2c0, parentUri) THEN p2c0
              ELSE Append(p2c0, [parent |-> parentUri, children |-> <<>>])
  IN [c EXCEPT !.parentToChildUri =
        [i \in DOMAIN p2c1 |->
           IF p2c1[i].parent = parentUri /\ ~Contains(p2c1[i].children, childUri)
           THEN [p2c1[i] EXCEPT !.children = Append(@, childUri)]
           ELSE p2c1[i]]]

setData(c, uri, d) ==
  [c EXCEPT !.data = [u \in DOMAIN c.data \cup {uri} |-> IF u = uri THEN d ELSE c.data[u]]]

getData(c, uri) == IF uri \in DOMAIN c.data THEN c.data[uri] ELSE undefined

DefsOf(c, uri) == IF uri \in DOMAIN c.data THEN c.data[uri].defs ELSE <<>>

\* the defs pushed for the children of one parent entry that has uri
RECURSIVE SiblingDefs(_, _, _)
SiblingDefs(c, children, uri) ==
  IF children = <<>> THEN <<>>
  ELSE (IF Head(children) # uri THEN DefsOf(c, Head(children)) ELSE <<>>)
       \o SiblingDefs(c, Tail(children), uri)

RECURSIVE ParentDefs(_, _, _)
ParentDefs(c, p2c, uri) ==
  IF p2c = <<>> THEN <<>>
  ELSE (IF Contains(Head(p2c).children, uri)
        THEN SiblingDefs(c, Head(p2c).children, uri) ELSE <<>>)
       \o ParentDefs(c, Tail(p2c), uri)

\* the final loop of iterDefs: skip a def whose key was already yielded
RECURSIVE YieldDefs(_, _, _)
YieldDefs(defs, distinct, yielded) ==
  IF defs = <<>> THEN <<>>
  ELSE LET def == Head(defs)
       IN IF distinct /\ def.key \in yielded
          THEN YieldDefs(Tail(defs), distinct, yielded)
          ELSE <<def>> \o YieldDefs(Tail(defs), distinct,
                                    IF distinct THEN yielded \cup {def.key} ELSE yielded)

\* faulty variant: the defs of the siblings are pushed before the URI's own
iterDefs_siblingsFirst(c, uri, distinct) ==
  YieldDefs(ParentDefs(c, c.parentToChildUri, uri) \o DefsOf(c, uri), distinct, {})

iterDefs(c, uri, distinct) ==
  YieldDefs(DefsOf(c, uri) \o ParentDefs(c, c.parentToChildUri, uri), distinct, {})

-----------------------------------------------------------------------------
(* class projectDatabase: the loki collection "targets" *)

\* a loki equality query: every field the query names has the given value
Matches(record, query) == \A f \in DOMAIN query : record[f] = query[f]

RECURSIVE find(_, _)
find(coll, query) ==
  IF coll = <<>> THEN <<>>
  ELSE (IF Matches(Head(coll), query) THEN <<Head(coll)>> ELSE <<>>)
       \o find(Tail(coll), query)

RECURSIVE findAndRemove(_, _)
findAndRemove(coll, query) ==
  IF coll = <<>> THEN <<>>
  ELSE (IF Matches(Head(coll), query) THEN <<>> ELSE <<Head(coll)>>)
       \o findAndRemove(Tail(coll), query)

dbClear(coll) == <<>>

dbRemoveUri(coll, uri) == findAndRemove(coll, [uri |-> uri])

insertTargets(coll, targets) == coll \o targets

getTargets(coll, name) == find(coll, [name |-> name])

RECURSIVE YieldTargets(_, _, _)
YieldTargets(found, distinct, yielded) ==
  IF found = <<>> THEN <<>>
  ELSE LET target == Head(found)
       IN IF distinct /\ target.name \in yielded
          THEN YieldTargets(Tail(found), distinct, yielded)
          ELSE <<target>> \o YieldTargets(Tail(found), distinct,
                                          IF distinct THEN yielded \cup {target.name}
                                          ELSE yielded)

\* faulty variant: the yielded names are not recorded
iterTargets_noYielded(coll, distinct) == find(coll, <<>>)

\* iterTargets with the default (empty) filter
iterTargets(coll, distinct) == YieldTargets(find(coll, <<>>), distinct, {})

-----------------------------------------------------------------------------
(* class Server: the handlers, as functions of the pair [cache, db] *)

\* faulty variant: the records of the URI are not purged before the parse
analyseTextDocument_noPurge(s, uri, text) ==
  LET cache1 == removeUri(s.cache, uri)
      parsed == parseTextDocument(uri, text)
      cache2 == setData(cache1, uri,
                        [tokens |-> parsed.tokens,
                         lineToTokenIndex |-> parsed.lineToTokenIndex,
                         defs |-> parsed.definitions])
  IN [cache |-> cache2, db |-> insertTargets(s.db, parsed.targets)]

\* faulty variant: a snapshot that is replaced keeps its line index
analyseTextDocument_staleIndex(s, uri, text) ==
  LET db1 == dbRemoveUri(s.db, uri)
      cache1 == removeUri(s.cache, uri)
      parsed == parseTextDocument(uri, text)
      cache2 == setData(cache1, uri,
                        [tokens |-> parsed.tokens,
                         lineToTokenIndex |->
                           IF uri \in DOMAIN s.cache.data
                           THEN s.cache.data[uri].lineToTokenIndex
                           ELSE parsed.lineToTokenIndex,
                         defs |-> parsed.definitions])
  IN [cache |-> cache2, db |-> insertTargets(db1, parsed.targets)]

\* faulty variant: the parse starts from the definitions of the snapshot
\* that it replaces
analyseTextDocument_keepsEnv(s, uri, text) ==
  LET db1 == dbRemoveUri(s.db, uri)
      cache1 == removeUri(s.cache, uri)
      parsed == parseTextDocument(uri, text)
      cache2 == setData(cache1, uri,
                        [tokens |-> parsed.tokens,
                         lineToTokenIndex |-> parsed.lineToTokenIndex,
                         defs |-> envReferences(text, 1, DefsOf(s.cache, uri))])
  IN [cache |-> cache2, db |-> insertTargets(db1, parsed.targets)]

analyseTextDocument(s, uri, text) ==
  LET db1 == dbRemoveUri(s.db, uri)
      cache1 == removeUri(s.cache, uri)
      parsed == parseTextDocument(uri, text)
      cache2 == setData(cache1, uri,
                        [tokens |-> parsed.tokens,
                         lineToTokenIndex |-> parsed.lineToTokenIndex,
                         defs |-> parsed.definitions])
  IN [cache |-> cache2, db |-> insertTargets(db1, parsed.targets)]

onDocChange(s, uri, text) == analyseTextDocument(s, uri, text)

\* faulty variant: the close handler also prunes the Project Target Index
onDocClose_dropsTargets(s, uri) ==
  [cache |-> removeUri(s.cache, uri), db |-> dbRemoveUri(s.db, uri)]

\* faulty variant: the close handler leaves the cache alone
onDocClose_keepsSnapshot(s, uri) == s

\* documents.onDidClose
onDocClose(s, uri) == [s EXCEPT !.cache = removeUri(s.cache, uri)]

\* notebooks.onDidClose
onNbClose(s, nbUri) == [s EXCEPT !.cache = removeUri(s.cache, nbUri)]

\* the loop over nb.cells; textOf gives each cell document's text
RECURSIVE onNbOpen(_, _, _, _)
onNbOpen(s, nbUri, cells, textOf) ==
  IF cells = <<>> THEN s
  ELSE LET s1 == analyseTextDocument(s, Head(cells), textOf[Head(cells)])
           s2 == [s1 EXCEPT !.cache = setParentToChildUri(s1.cache, nbUri, Head(cells))]
       IN onNbOpen(s2, nbUri, Tail(cells), textOf)

RECURSIVE RemoveCells(_, _)
RemoveCells(s, removed) ==
  IF removed = <<>> THEN s
  ELSE RemoveCells([cache |-> removeUri(s.cache, Head(removed)),
                    db |-> dbRemoveUri(s.db, Head(removed))], Tail(removed))

RECURSIVE ChangeCells(_, _, _)
ChangeCells(s, changed, textOf) ==
  IF changed = <<>> THEN s
  ELSE ChangeCells(analyseTextDocument(s, Head(changed), textOf[Head(changed)]),
                   Tail(changed), textOf)

\* change.cells = [removed, added, changed.textContent], each a list of cells
onNbChange(s, nbUri, removed, added, changed, textOf) ==
  LET s1 == RemoveCells(s, removed)
      s2 == onNbOpen(s1, nbUri, added, textOf)
  IN ChangeCells(s2, changed, textOf)

\* faulty variant: the records are deleted whatever the type of the change
onDidChangeWatchedFiles_anyType(s, uri, type) ==
  [s EXCEPT !.db = dbRemoveUri(s.db, uri)]

\* one change of change.changes
onDidChangeWatchedFiles(s, uri, type) ==
  IF type = "Deleted" THEN [s EXCEPT !.db = dbRemoveUri(s.db, uri)] ELSE s

\* the URI the scan gives cell number index (from 0) of a notebook file when
\* the client is Visual Studio Code: the URI under which that client opens
\* the cell
cellUriGenerate(nbUri, index) == IF index = 0 THEN "c1" ELSE "c2"

\* the loop over filesText, each a file [uri, text]
RECURSIVE ScanTextFiles(_, _)
ScanTextFiles(coll, filesText) ==
  IF filesText = <<>> THEN coll
  ELSE LET file == Head(filesText)
           data == parseTextDocument(file.uri, file.text)
       IN ScanTextFiles(insertTargets(coll, data.targets), Tail(filesText))

\* cells.forEach of one notebook file; only markdown cells are parsed
RECURSIVE ScanCells(_, _, _, _)
ScanCells(coll, nbUri, cells, index) ==
  IF index >= Len(cells) THEN coll
  ELSE LET cell == cells[index + 1]
           uri == cellUriGenerate(nbUri, index)
           data == parseTextDocument(uri, cell.source)
       IN ScanCells(IF cell.cell_type = "markdown"
                    THEN insertTargets(coll, data.targets) ELSE coll,
                    nbUri, cells, index + 1)

\* the loop over filesNb, each a file [uri, cells]
RECURSIVE ScanNbFiles(_, _)
ScanNbFiles(coll, filesNb) ==
  IF filesNb = <<>> THEN coll
  ELSE ScanNbFiles(ScanCells(coll, Head(filesNb).uri, Head(filesNb).cells, 0),
                   Tail(filesNb))

\* faulty variant: the index is not cleared before the files are parsed
analyzeProject_noClear(s, filesText, filesNb) ==
  [s EXCEPT !.db = ScanNbFiles(ScanTextFiles(s.db, filesText), filesNb)]

\* analyzeProject from db.clear() on: the globs found filesText and filesNb
analyzeProject(s, filesText, filesNb) ==
  [s EXCEPT !.db = ScanNbFiles(ScanTextFiles(dbClear(s.db), filesText), filesNb)]

-----------------------------------------------------------------------------
(* The block parser: markdown-it's StateBlock *)

\* F applied to the value of x, which is computed once
With(x, F(_)) == CHOOSE r \in {F(v) : v \in {x}} : TRUE

\* StateBlock's arrays and the source are indexed from 0
At(a, i) == a[i + 1]

\* the source text of a sequence of lines: every line ends with a line feed
RECURSIVE JoinLines(_)
JoinLines(lines) ==
  IF lines = <<>> THEN <<>>
  ELSE Head(lines) \o <<"\n">> \o JoinLines(Tail(lines))

RECURSIVE LeadingSpaces(_)
LeadingSpaces(l) ==
  IF l # <<>> /\ Head(l) = " " THEN 1 + LeadingSpaces(Tail(l)) ELSE 0

RECURSIVE LineStarts(_, _)
LineStarts(lines, pos) ==
  IF lines = <<>> THEN <<>>
  ELSE <<pos>> \o LineStarts(Tail(lines), pos + Len(Head(lines)) + 1)

\* new StateBlock(src): the marks of every line and of the fake line after
\* the last; env.references has the [key, href, title] entries in the order
\* they were set; phase and lineToTokenIndex are parseTextDocument's own,
\* and frames has the calls of parseDiv that are tokenizing their body
StateBlock(lines, phase) ==
  LET src == JoinLines(lines)
      n == Len(lines)
      b == LineStarts(lines, 0)
  IN [src |-> src,
      bMarks |-> b \o <<Len(src)>>,
      eMarks |-> [i \in 1..n |-> b[i] + Len(lines[i])] \o <<Len(src)>>,
      tShift |-> [i \in 1..n |-> LeadingSpaces(lines[i])] \o <<0>>,
      sCount |-> [i \in 1..n |-> LeadingSpaces(lines[i])] \o <<0>>,
      blkIndent |-> 0,
      line |-> 0,
      lineMax |-> n,
      parentType |-> "root",
      tokens |-> <<>>,
      env |-> [references |-> <<>>],
      phase |-> phase,
      lineToTokenIndex |-> EmptyMap,
      frames |-> <<>>]

\* no parse was started
Idle == StateBlock(<<>>, "idle")

\* src.charCodeAt(pos); "" stands for NaN, past the end of the source
Char(st, pos) == IF pos < Len(st.src) THEN st.src[pos + 1] ELSE ""

\* src.slice(from, to)
slice(st, from, to) ==
  LET end == IF to < Len(st.src) THEN to ELSE Len(st.src)
  IN IF from < end THEN SubSeq(st.src, from + 1, end) ELSE <<>>

isSpace(ch) == ch = " "

isEmpty(st, line) == At(st.bMarks, line) + At(st.tShift, line) >= At(st.eMarks, line)

RECURSIVE skipEmptyLines(_, _)
skipEmptyLines(st, from) ==
  IF from < st.lineMax /\ isEmpty(st, from) THEN skipEmptyLines(st, from + 1) ELSE from

\* faulty variant: every character up to the end of the line is skipped
RECURSIVE skipSpaces_toLineEnd(_, _)
skipSpaces_toLineEnd(st, pos) ==
  IF pos < Len(st.src) /\ Char(st, pos) # "\n" THEN skipSpaces_toLineEnd(st, pos + 1) ELSE pos

RECURSIVE skipSpaces(_, _)
skipSpaces(st, pos) ==
  IF pos < Len(st.src) /\ isSpace(Char(st, pos)) THEN skipSpaces(st, pos + 1) ELSE pos

\* String.trim on a sequence of characters
RECURSIVE TrimLeft(_)
TrimLeft(s) ==
  IF s # <<>> /\ Head(s) \in {" ", "\n"} THEN TrimLeft(Tail(s)) ELSE s

RECURSIVE TrimRight(_)
TrimRight(s) ==
  IF s # <<>> /\ s[Len(s)] \in {" ", "\n"} THEN TrimRight(SubSeq(s, 1, Len(s) - 1)) ELSE s

Trim(s) == TrimRight(TrimLeft(s))

\* getLines(begin, end, indent, false) as a sequence of lines: each line
\* without up to indent of its leading spaces
getLines(st, begin, end, indent) ==
  [i \in 1..(end - begin) |->
     LET line == begin + i - 1
         cut == IF At(st.tShift, line) < indent THEN At(st.tShift, line) ELSE indent
     IN slice(st, At(st.bMarks, line) + cut, At(st.eMarks, line))]

\* a meta of null has no key
NoMeta == [k \in {} |-> <<>>]

\* new Token(type, tag, nesting)
Token(type, nesting) ==
  [type |-> type, nesting |-> nesting, map |-> <<>>, markup |-> <<>>,
   info |-> <<>>, content |-> <<>>, meta |-> NoMeta]

-----------------------------------------------------------------------------
(* yaml.load, for option lines of the forms "key: value", "- item", a plain
   scalar, an unclosed "[" or "{", and the empty line, none indented *)

\* the position of the first ":" that ends a mapping key, or 0
KeyEnd(t) ==
  LET ends == {i \in DOMAIN t : t[i] = ":" /\ (i = Len(t) \/ t[i + 1] = " ")}
  IN IF ends = {} THEN 0 ELSE CHOOSE i \in ends : \A k \in ends : i <= k

YamlLineKind(l) ==
  LET t == Trim(l)
  IN IF t = <<>> THEN "empty"
     ELSE IF Head(t) = "-" /\ (Len(t) = 1 \/ t[2] = " ") THEN "item"
     ELSE IF Head(t) \in {"[", "{"} THEN "unclosed"
     ELSE IF KeyEnd(t) > 1 THEN "pair"
     ELSE "scalar"

YamlKey(l) == LET t == Trim(l) IN SubSeq(t, 1, KeyEnd(t) - 1)

YamlValue(l) == LET t == Trim(l) IN Trim(SubSeq(t, KeyEnd(t) + 1, Len(t)))

YamlException == [type |-> "throw", value |-> "YAMLException"]

\* the value yaml.load returns, as [type, value], or the exception it throws
yamlLoad(lines) ==
  LET content == {i \in DOMAIN lines : YamlLineKind(lines[i]) # "empty"}
      kinds == {YamlLineKind(lines[i]) : i \in content}
      keys == {YamlKey(lines[i]) : i \in content}
  IN IF content = {} THEN [type |-> "undefined", value |-> <<>>]
     ELSE IF kinds = {"pair"}
     THEN IF Cardinality(keys) = Cardinality(content)
          THEN [type |-> "mapping",
                value |-> [key \in keys |->
                             YamlValue(lines[CHOOSE i \in content : YamlKey(lines[i]) = key])]]
          ELSE YamlException
     ELSE IF kinds = {"item"}
     THEN [type |-> "sequence", value |-> <<>>]
     ELSE IF kinds = {"scalar"}
     THEN IF Cardinality(content) = 1
             /\ \E i \in content : Trim(lines[i]) \in {<<"n", "u", "l", "l">>, <<"~">>}
          THEN [type |-> "null", value |-> <<>>]
          ELSE [type |-> "scalar", value |-> <<>>]
     ELSE YamlException

\* JavaScript's typeof of a loaded value
typeof(v) ==
  CASE v.type \in {"mapping", "sequence", "null"} -> "object"
    [] v.type = "undefined" -> "undefined"
    [] OTHER -> "string"

-----------------------------------------------------------------------------
(* The block rules: code, div, paragraph, and the tokenizer that tries them *)

RECURSIVE CodeEnd(_, _, _, _)
CodeEnd(st, nextLine, last, endLine) ==
  IF nextLine >= endLine THEN last
  ELSE IF isEmpty(st, nextLine) THEN CodeEnd(st, nextLine + 1, last, endLine)
  ELSE IF At(st.sCount, nextLine) - st.blkIndent >= 4
       THEN CodeEnd(st, nextLine + 1, nextLine + 1, endLine)
       ELSE last

\* markdown-it's rule for indented code blocks
code(st, startLine, endLine, silent) ==
  IF At(st.sCount, startLine) - st.blkIndent < 4 THEN [ok |-> FALSE, st |-> st]
  ELSE LET last == CodeEnd(st, startLine + 1, startLine + 1, endLine)
           token == [Token("code_block", 0) EXCEPT
                       !.content = JoinLines(getLines(st, startLine, last, 4 + st.blkIndent)),
                       !.map = <<startLine, last>>]
       IN [ok |-> TRUE,
           st |-> [st EXCEPT !.line = last, !.tokens = Append(@, token)]]

\* the loops that measure a run of markers: the position after the run
RECURSIVE MarkerRunEnd(_, _, _)
MarkerRunEnd(st, pos, max) ==
  IF pos <= max /\ Char(st, pos) = ":" THEN MarkerRunEnd(st, pos + 1, max) ELSE pos

\* optionsEndLine = null
null == -1

\* faulty variant: a line that is no option line does not end the options
RECURSIVE DivScan_optionsAnywhere(_, _, _, _, _, _, _, _)
DivScan_optionsAnywhere(st, nextLine0, endLine, start0, pos0, inOptions, optionsEndLine, marker_count) ==
  LET nextLine == nextLine0 + 1
      start == At(st.bMarks, nextLine) + At(st.tShift, nextLine)
      max == At(st.eMarks, nextLine)
      isOption == /\ inOptions
                  /\ Char(st, start) = ":"
                  /\ Char(st, start + 1) # ":"
                  /\ At(st.sCount, nextLine) - st.blkIndent <= 3
      optEnd == IF isOption THEN nextLine ELSE optionsEndLine
      pos1 == MarkerRunEnd(st, start + 1, max)
      pos2 == skipSpaces(st, pos1)
      Continue(p) ==
        DivScan_optionsAnywhere(st, nextLine, endLine, start, p, inOptions, optEnd,
                                marker_count)
  IN IF nextLine >= endLine
     THEN [nextLine |-> nextLine, start |-> start0, pos |-> pos0,
           auto_closed |-> FALSE, optionsEndLine |-> optionsEndLine]
     ELSE IF start < max /\ At(st.sCount, nextLine) < st.blkIndent
     THEN [nextLine |-> nextLine, start |-> start, pos |-> pos0,
           auto_closed |-> FALSE, optionsEndLine |-> optionsEndLine]
     ELSE IF Char(st, start) # ":" THEN Continue(pos0)
     ELSE IF At(st.sCount, nextLine) - st.blkIndent >= 4 THEN Continue(pos0)
     ELSE IF pos1 - start < marker_count THEN Continue(pos1)
     ELSE IF pos2 < max THEN Continue(pos2)
     ELSE [nextLine |-> nextLine, start |-> start, pos |-> pos2,
           auto_closed |-> TRUE, optionsEndLine |-> optEnd]

\* parseDiv's search for the end of the block, from the line after nextLine:
\* the values of nextLine, start, pos, auto_closed and optionsEndLine when
\* the loop is left
RECURSIVE DivScan(_, _, _, _, _, _, _, _)
DivScan(st, nextLine0, endLine, start0, pos0, inOptions, optionsEndLine, marker_count) ==
  LET nextLine == nextLine0 + 1
      start == At(st.bMarks, nextLine) + At(st.tShift, nextLine)
      max == At(st.eMarks, nextLine)
      isOption == /\ inOptions
                  /\ Char(st, start) = ":"
                  /\ Char(st, start + 1) # ":"
                  /\ At(st.sCount, nextLine) - st.blkIndent <= 3
      optEnd == IF isOption THEN nextLine ELSE optionsEndLine
      pos1 == MarkerRunEnd(st, start + 1, max)
      pos2 == skipSpaces(st, pos1)
      Left(s, p, closed) ==
        [nextLine |-> nextLine, start |-> s, pos |-> p,
         auto_closed |-> closed, optionsEndLine |-> optEnd]
      Continue(p) ==
        DivScan(st, nextLine, endLine, start, p, isOption, optEnd, marker_count)
  IN IF nextLine >= endLine
     THEN [nextLine |-> nextLine, start |-> start0, pos |-> pos0,
           auto_closed |-> FALSE, optionsEndLine |-> optionsEndLine]
     ELSE IF start < max /\ At(st.sCount, nextLine) < st.blkIndent
     THEN [nextLine |-> nextLine, start |-> start, pos |-> pos0,
           auto_closed |-> FALSE, optionsEndLine |-> optionsEndLine]
     ELSE IF Char(st, start) # ":" THEN Continue(pos0)
     ELSE IF At(st.sCount, nextLine) - st.blkIndent >= 4 THEN Continue(pos0)
     ELSE IF pos1 - start < marker_count THEN Continue(pos1)
     ELSE IF pos2 < max THEN Continue(pos2)
     ELSE Left(start, pos2, TRUE)

\* faulty variant: the option lines keep their first character
OptionText_keepsColon(st, startLine, optionsEndLine) ==
  LET lines == getLines(st, startLine + 1, optionsEndLine + 1, st.blkIndent)
  IN [i \in DOMAIN lines |-> TrimLeft(lines[i])]

\* the option text: the option lines without leading whitespace and without
\* their first character
OptionText(st, startLine, optionsEndLine) ==
  LET lines == getLines(st, startLine + 1, optionsEndLine + 1, st.blkIndent)
  IN [i \in DOMAIN lines |->
        LET stripped == TrimLeft(lines[i])
        IN IF stripped = <<>> THEN <<>> ELSE Tail(stripped)]

\* token.meta of a div_open with option lines
DivMeta(st, startLine, optionsEndLine) ==
  LET options == yamlLoad(OptionText(st, startLine, optionsEndLine))
      optMap == <<startLine + 1, optionsEndLine>>
  IN IF options.type = "throw"
     THEN [optMap |-> optMap, optError |-> options.value]
     ELSE IF typeof(options) # "object"
     THEN [optMap |-> optMap, optError |-> "Error: Options must be a dictionary"]
     ELSE [optMap |-> optMap, options |-> options]

-----------------------------------------------------------------------------
(* The MyST block rules: line comment, block break, target *)

Lower == {"a", "b", "c", "d", "e", "f", "g", "h", "i", "j", "k", "l", "m",
          "n", "o", "p", "q", "r", "s", "t", "u", "v", "w", "x", "y", "z"}
Upper == {"A", "B", "C", "D", "E", "F", "G", "H", "I", "J", "K", "L", "M",
          "N", "O", "P", "Q", "R", "S", "T", "U", "V", "W", "X", "Y", "Z"}
Digits == {"0", "1", "2", "3", "4", "5", "6", "7", "8", "9"}

\* the character class of the label in TARGET_PATTERN
LabelChars ==
  Lower \cup Upper \cup Digits \cup {"|", "@", "<", ">", "*", ".", "/", "_", "-", "+", ":"}

\* the regular expression's \s, as far as the source texts have it
Whitespace == {" ", "\t", "\n", "\r", "\f"}

\* the longest label the pattern takes
MaxLabel == 100

\* how many characters of s from index i on are label characters
LabelRun(s, i) ==
  Cardinality({j \in i..Len(s) : \A k \in i..j : s[k] \in LabelChars})

\* faulty variant: the pattern is not anchored at the end of the line
TARGET_PATTERN_noEnd(s) ==
  With(LabelRun(s, 2), LAMBDA n :
    IF /\ Len(s) >= n + 3
       /\ s[1] = "("
       /\ 1 <= n /\ n <= MaxLabel
       /\ s[n + 2] = ")"
       /\ s[n + 3] = "="
    THEN [ok |-> TRUE, label |-> SubSeq(s, 2, n + 1)]
    ELSE [ok |-> FALSE, label |-> <<>>])

\* TARGET_PATTERN.exec(s): "(", 1 to 100 label characters, ")=", white space
\* up to the end of s. The character after the label has to be ")", which
\* is no label character, so the label is the whole run.
TARGET_PATTERN(s) ==
  With(LabelRun(s, 2), LAMBDA n :
    IF /\ Len(s) >= n + 3
       /\ s[1] = "("
       /\ 1 <= n /\ n <= MaxLabel
       /\ s[n + 2] = ")"
       /\ s[n + 3] = "="
       /\ \A i \in (n + 4)..Len(s) : s[i] \in Whitespace
    THEN [ok |-> TRUE, label |-> SubSeq(s, 2, n + 1)]
    ELSE [ok |-> FALSE, label |-> <<>>])

\* faulty variant: the rule does in validation mode what it does otherwise
parse_target_ignoresSilent(st, startLine, endLine, silent) ==
  IF At(st.sCount, startLine) - st.blkIndent >= 4 THEN [ok |-> FALSE, st |-> st]
  ELSE With(TARGET_PATTERN(slice(st, At(st.bMarks, startLine) + At(st.tShift, startLine),
                                 At(st.eMarks, startLine))), LAMBDA match :
    IF ~match.ok THEN [ok |-> FALSE, st |-> st]
    ELSE [ok |-> TRUE,
          st |-> [st EXCEPT
                    !.line = startLine + 1,
                    !.tokens = Append(@, [Token("myst_target", 0) EXCEPT
                                            !.content = match.label,
                                            !.map = <<startLine, startLine + 1>>])]])

parse_target(st, startLine, endLine, silent) ==
  IF At(st.sCount, startLine) - st.blkIndent >= 4 THEN [ok |-> FALSE, st |-> st]
  ELSE With(TARGET_PATTERN(slice(st, At(st.bMarks, startLine) + At(st.tShift, startLine),
                                 At(st.eMarks, startLine))), LAMBDA match :
    IF ~match.ok THEN [ok |-> FALSE, st |-> st]
    ELSE IF silent THEN [ok |-> TRUE, st |-> st]
    ELSE [ok |-> TRUE,
          st |-> [st EXCEPT
                    !.line = startLine + 1,
                    !.tokens = Append(@, [Token("myst_target", 0) EXCEPT
                                            !.content = match.label,
                                            !.map = <<startLine, startLine + 1>>])]])

\* the text of a comment line after its "%", without trailing white space
CommentText(st, line) ==
  TrimRight(slice(st, At(st.bMarks, line) + At(st.tShift, line) + 1, At(st.eMarks, line)))

\* faulty variant: the comment ends after its first line
CommentEnd_oneLine(st, nextLine, endLine) == nextLine

\* parse_line_comment's search for the end of the block: the first line from
\* nextLine on that does not start with "%", or endLine
RECURSIVE CommentEnd(_, _, _)
CommentEnd(st, nextLine, endLine) ==
  IF nextLine < endLine
     /\ Char(st, At(st.bMarks, nextLine) + At(st.tShift, nextLine)) = "%"
  THEN CommentEnd(st, nextLine + 1, endLine)
  ELSE nextLine

\* token.content: the texts of lines from..(to - 1), joined by line feeds
RECURSIVE CommentContent(_, _, _)
CommentContent(st, from, to) ==
  IF from + 1 >= to THEN CommentText(st, from)
  ELSE CommentText(st, from) \o <<"\n">> \o CommentContent(st, from + 1, to)

parse_line_comment(st, startLine, endLine, silent) ==
  LET pos == At(st.bMarks, startLine) + At(st.tShift, startLine)
      nextLine == CommentEnd(st, startLine + 1, endLine)
      token == [Token("myst_line_comment", 0) EXCEPT
                  !.content = CommentContent(st, startLine, nextLine),
                  !.markup = <<"%">>,
                  !.map = <<startLine, nextLine>>]
  IN IF At(st.sCount, startLine) - st.blkIndent >= 4 THEN [ok |-> FALSE, st |-> st]
     ELSE IF Char(st, pos) # "%" THEN [ok |-> FALSE, st |-> st]
     ELSE IF silent THEN [ok |-> TRUE, st |-> st]
     ELSE [ok |-> TRUE,
           st |-> [st EXCEPT !.line = nextLine, !.tokens = Append(@, token)]]

\* faulty variant: a space counts as a marker
RECURSIVE BreakRun_countsSpaces(_, _, _, _)
BreakRun_countsSpaces(st, pos, maximum, cnt) ==
  IF pos < maximum /\ (Char(st, pos) = "+" \/ isSpace(Char(st, pos)))
  THEN BreakRun_countsSpaces(st, pos + 1, maximum, cnt + 1)
  ELSE [pos |-> pos, cnt |-> cnt]

\* parse_block_break's loop over the markers and spaces after the first
\* marker: the position and the count when the loop is left
RECURSIVE BreakRun(_, _, _, _)
BreakRun(st, pos, maximum, cnt) ==
  IF pos < maximum /\ (Char(st, pos) = "+" \/ isSpace(Char(st, pos)))
  THEN BreakRun(st, pos + 1, maximum, IF Char(st, pos) = "+" THEN cnt + 1 ELSE cnt)
  ELSE [pos |-> pos, cnt |-> cnt]

\* "there should be at least 3 of them"
MinBreakMarkers == 3

\* faulty variant: the rule leaves the parser two lines after its line
parse_block_break_skipsLine(st, startLine, endLine, silent) ==
  LET pos == At(st.bMarks, startLine) + At(st.tShift, startLine)
      maximum == At(st.eMarks, startLine)
      run == BreakRun(st, pos + 1, maximum, 1)
      token == [Token("myst_block_break", 0) EXCEPT
                  !.content = Trim(slice(st, run.pos, maximum)),
                  !.map = <<startLine, startLine + 1>>,
                  !.markup = [i \in 1..run.cnt |-> "+"]]
  IN IF At(st.sCount, startLine) - st.blkIndent >= 4 THEN [ok |-> FALSE, st |-> st]
     ELSE IF Char(st, pos) # "+" THEN [ok |-> FALSE, st |-> st]
     ELSE IF run.cnt < MinBreakMarkers THEN [ok |-> FALSE, st |-> st]
     ELSE IF silent THEN [ok |-> TRUE, st |-> st]
     ELSE [ok |-> TRUE,
           st |-> [st EXCEPT !.line = startLine + 2, !.tokens = Append(@, token)]]

parse_block_break(st, startLine, endLine, silent) ==
  LET pos == At(st.bMarks, startLine) + At(st.tShift, startLine)
      maximum == At(st.eMarks, startLine)
      run == BreakRun(st, pos + 1, maximum, 1)
      token == [Token("myst_block_break", 0) EXCEPT
                  !.content = Trim(slice(st, run.pos, maximum)),
                  !.map = <<startLine, startLine + 1>>,
                  !.markup = [i \in 1..run.cnt |-> "+"]]
  IN IF At(st.sCount, startLine) - st.blkIndent >= 4 THEN [ok |-> FALSE, st |-> st]
     ELSE IF Char(st, pos) # "+" THEN [ok |-> FALSE, st |-> st]
     ELSE IF run.cnt < MinBreakMarkers THEN [ok |-> FALSE, st |-> st]
     ELSE IF silent THEN [ok |-> TRUE, st |-> st]
     ELSE [ok |-> TRUE,
           st |-> [st EXCEPT !.line = startLine + 1, !.tokens = Append(@, token)]]

-----------------------------------------------------------------------------
(* The helpers of the definition rule. The source texts have no backslash
   and no "&", so that nothing is escaped in a label, a destination or a
   title. *)

\* str.charCodeAt(pos) on a string; "" stands for NaN
CharAt(str, pos) == IF 0 <= pos /\ pos < Len(str) THEN str[pos + 1] ELSE ""

\* str.slice(from, to)
Slice(str, from, to) ==
  LET end == IF to < Len(str) THEN to ELSE Len(str)
  IN IF from < end THEN SubSeq(str, from + 1, end) ELSE <<>>

\* lines.join("\n")
RECURSIVE JoinNL(_)
JoinNL(lines) ==
  IF lines = <<>> THEN <<>>
  ELSE IF Len(lines) = 1 THEN lines[1]
  ELSE Head(lines) \o <<"\n">> \o JoinNL(Tail(lines))

ToUpperCase(ch) ==
  CASE ch = "k" -> "K" [] ch = "j" -> "J" [] ch = "d" -> "D" [] ch = "a" -> "A"
    [] ch = "t" -> "T" [] ch = "x" -> "X" [] ch = "y" -> "Y" [] ch = "g" -> "G"
    [] OTHER -> ch

ToLowerCase(ch) ==
  CASE ch = "K" -> "k" [] ch = "J" -> "j" [] ch = "D" -> "d" [] ch = "A" -> "a"
    [] ch = "T" -> "t" [] ch = "X" -> "x" [] ch = "Y" -> "y" [] ch = "G" -> "g"
    [] OTHER -> ch

\* str.replace(/\s+/g, " ")
RECURSIVE CollapseSpaces(_)
CollapseSpaces(str) ==
  IF str = <<>> THEN <<>>
  ELSE IF Head(str) \in Whitespace
       THEN IF Len(str) > 1 /\ str[2] \in Whitespace
            THEN CollapseSpaces(Tail(str))
            ELSE <<" ">> \o CollapseSpaces(Tail(str))
       ELSE <<Head(str)>> \o CollapseSpaces(Tail(str))

\* markdown-it's normalizeReference on a string: trimmed, runs of white space
\* collapsed, lower-cased and then upper-cased
normalizeReferenceStr(str) ==
  LET folded == CollapseSpaces(Trim(str))
  IN [i \in DOMAIN folded |-> ToUpperCase(ToLowerCase(folded[i]))]

\* md.normalizeLink: the characters that a URL cannot have are percent-encoded
RECURSIVE normalizeLink(_)
normalizeLink(url) ==
  IF url = <<>> THEN <<>>
  ELSE (IF Head(url) = " " THEN <<"%", "2", "0">> ELSE <<Head(url)>>)
         \o normalizeLink(Tail(url))

BadProtocols ==
  { <<"v", "b", "s", "c", "r", "i", "p", "t", ":">>,
    <<"j", "a", "v", "a", "s", "c", "r", "i", "p", "t", ":">>,
    <<"f", "i", "l", "e", ":">>,
    <<"d", "a", "t", "a", ":">> }

\* md.validateLink: no vbscript:, javascript:, file: or data: URL (the data:
\* URLs of images that it lets through are not among the source texts)
validateLink(url) ==
  LET str == [i \in DOMAIN Trim(url) |-> ToLowerCase(Trim(url)[i])]
  IN ~\E proto \in BadProtocols : Slice(str, 0, Len(proto)) = proto

\* the loops that skip white space and count the line feeds in it
RECURSIVE SkipWhite(_, _, _, _)
SkipWhite(str, pos, max, lines) ==
  IF pos < max /\ CharAt(str, pos) = "\n" THEN SkipWhite(str, pos + 1, max, lines + 1)
  ELSE IF pos < max /\ isSpace(CharAt(str, pos)) THEN SkipWhite(str, pos + 1, max, lines)
  ELSE [pos |-> pos, lines |-> lines]

\* the loops that skip the spaces up to the rest of the line
RECURSIVE SkipLineSpaces(_, _, _)
SkipLineSpaces(str, pos, max) ==
  IF pos < max /\ isSpace(CharAt(str, pos)) THEN SkipLineSpaces(str, pos + 1, max) ELSE pos

NoResult == [ok |-> FALSE, pos |-> 0, lines |-> 0, str |-> <<>>]

\* parseLinkDestination, the form in angle brackets, from the position
\* after the "<"
RECURSIVE DestinationInBrackets(_, _, _, _)
DestinationInBrackets(str, start, pos, max) ==
  IF pos >= max THEN NoResult
  ELSE IF CharAt(str, pos) \in {"\n", "<"} THEN NoResult
  ELSE IF CharAt(str, pos) = ">"
       THEN [ok |-> TRUE, pos |-> pos + 1, lines |-> 0, str |-> Slice(str, start + 1, pos)]
  ELSE DestinationInBrackets(str, start, pos + 1, max)

\* parseLinkDestination, the plain form: the position where the destination
\* ends and the level of open parentheses there
RECURSIVE PlainDestinationEnd(_, _, _, _)
PlainDestinationEnd(str, pos, max, level) ==
  IF pos >= max THEN [pos |-> pos, level |-> level]
  ELSE IF CharAt(str, pos) \in {" ", "\n", "\t", "\r", "\f"} THEN [pos |-> pos, level |-> level]
  ELSE IF CharAt(str, pos) = "(" THEN PlainDestinationEnd(str, pos + 1, max, level + 1)
  ELSE IF CharAt(str, pos) = ")"
       THEN IF level = 0 THEN [pos |-> pos, level |-> level]
            ELSE PlainDestinationEnd(str, pos + 1, max, level - 1)
  ELSE PlainDestinationEnd(str, pos + 1, max, level)

\* md.helpers.parseLinkDestination(str, pos, max)
parseLinkDestination(str, start, max) ==
  IF CharAt(str, start) = "<" THEN DestinationInBrackets(str, start, start + 1, max)
  ELSE LET end == PlainDestinationEnd(str, start, max, 0)
       IN IF start = end.pos THEN NoResult
          ELSE IF end.level # 0 THEN NoResult
          ELSE [ok |-> TRUE, pos |-> end.pos, lines |-> 0, str |-> Slice(str, start, end.pos)]

\* parseLinkTitle from the position after the opening marker
RECURSIVE TitleEnd(_, _, _, _, _, _)
TitleEnd(str, start, pos, max, marker, lines) ==
  IF pos >= max THEN NoResult
  ELSE IF CharAt(str, pos) = marker
       THEN [ok |-> TRUE, pos |-> pos + 1, lines |-> lines, str |-> Slice(str, start + 1, pos)]
  ELSE IF CharAt(str, pos) = "(" /\ marker = ")" THEN NoResult
  ELSE TitleEnd(str, start, pos + 1, max, marker,
                IF CharAt(str, pos) = "\n" THEN lines + 1 ELSE lines)

\* md.helpers.parseLinkTitle(str, pos, max)
parseLinkTitle(str, start, max) ==
  IF start >= max THEN NoResult
  ELSE IF CharAt(str, start) \notin {"\"", "'", "("} THEN NoResult
  ELSE TitleEnd(str, start, start + 1, max,
                IF CharAt(str, start) = "(" THEN ")" ELSE CharAt(str, start), 0)

-----------------------------------------------------------------------------
(* The tokenizer, and the rules that call it or each other *)

RECURSIVE parseDiv(_, _, _, _)
RECURSIVE parseDiv_unclosedNoClose(_, _, _, _)
RECURSIVE parseDiv_bodyToScopeEnd(_, _, _, _)
RECURSIVE paragraph(_, _, _, _)
RECURSIVE reference(_, _, _, _)
RECURSIVE tokenize(_, _, _)

\* the rules are tried in the order of the ruler until one accepts: code,
\* div, myst_line_comment, myst_block_break, myst_target, reference,
\* paragraph. No other rule of the ruler (table, fence, blockquote, hr, list,
\* html_block, heading, lheading) accepts a line of the source texts. A
\* rule that declines hands the state on as it left it.
tryRules(st, line, endLine) ==
  With(code(st, line, endLine, FALSE), LAMBDA c :
    IF c.ok THEN [rule |-> "code", st |-> c.st]
    ELSE With(parseDiv(st, line, endLine, FALSE), LAMBDA d :
    IF d.ok THEN [rule |-> "div", st |-> d.st]
    ELSE With(parse_line_comment(st, line, endLine, FALSE), LAMBDA lc :
    IF lc.ok THEN [rule |-> "myst_line_comment", st |-> lc.st]
    ELSE With(parse_block_break(st, line, endLine, FALSE), LAMBDA bb :
    IF bb.ok THEN [rule |-> "myst_block_break", st |-> bb.st]
    ELSE With(parse_target(st, line, endLine, FALSE), LAMBDA tg :
    IF tg.ok THEN [rule |-> "myst_target", st |-> tg.st]
    ELSE With(reference(st, line, endLine, FALSE), LAMBDA rf :
    IF rf.ok THEN [rule |-> "reference", st |-> rf.st]
    ELSE [rule |-> "paragraph", st |-> paragraph(rf.st, line, endLine, FALSE).st]))))))

\* one turn of the tokenizer's loop at a line that is not empty: the rule
\* that accepts runs, and an empty line right after it is skipped
tokenizeRule(st, line, endLine) ==
  With(tryRules(st, line, endLine).st, LAMBDA st1 :
    IF st1.line < endLine /\ isEmpty(st1, st1.line)
    THEN [st1 EXCEPT !.line = @ + 1]
    ELSE st1)

\* ParserBlock.tokenize
tokenize(st, startLine, endLine) ==
  IF startLine >= endLine THEN st
  ELSE LET line == skipEmptyLines(st, startLine)
           st1 == [st EXCEPT !.line = line]
       IN IF line >= endLine THEN st1
          ELSE IF At(st.sCount, line) < st.blkIndent THEN st1
          ELSE With(tokenizeRule(st1, line, endLine), LAMBDA st2 :
                 tokenize(st2, st2.line, endLine))

\* parseDiv in silent mode: it accepts a line that starts with three colons
\* or more, whatever the indent of the line
DivOpens(st, startLine) ==
  LET start == At(st.bMarks, startLine) + At(st.tShift, startLine)
      max == At(st.eMarks, startLine)
  IN /\ Char(st, start) = ":"
     /\ MarkerRunEnd(st, start + 1, max) - start >= 3

\* the rules that can terminate a paragraph or a definition (alt has
\* "paragraph" and "reference"), in silent mode: whether one of them accepts
Terminates(st, nextLine, endLine) ==
  \/ DivOpens(st, nextLine)
  \/ parse_line_comment(st, nextLine, endLine, TRUE).ok
  \/ parse_block_break(st, nextLine, endLine, TRUE).ok
  \/ parse_target(st, nextLine, endLine, TRUE).ok

\* the paragraph ends before the first empty line or the first line, not
\* indented as code, at which a terminator rule accepts in silent mode
RECURSIVE ParagraphEnd(_, _, _)
ParagraphEnd(st, nextLine, endLine) ==
  IF nextLine < endLine /\ ~isEmpty(st, nextLine)
  THEN IF At(st.sCount, nextLine) - st.blkIndent > 3
       THEN ParagraphEnd(st, nextLine + 1, endLine)
       ELSE IF At(st.sCount, nextLine) < 0
       THEN ParagraphEnd(st, nextLine + 1, endLine)
       ELSE IF Terminates(st, nextLine, endLine) THEN nextLine
       ELSE ParagraphEnd(st, nextLine + 1, endLine)
  ELSE nextLine

\* markdown-it's paragraph rule
paragraph(st, startLine, endLine, silent) ==
  With(ParagraphEnd(st, startLine + 1, st.lineMax), LAMBDA nextLine :
    LET content == Trim(slice(st, At(st.bMarks, startLine), At(st.eMarks, nextLine - 1)))
        open == [Token("paragraph_open", 1) EXCEPT !.map = <<startLine, nextLine>>]
        inline == [Token("inline", 0) EXCEPT !.content = content,
                                             !.map = <<startLine, nextLine>>]
        close == Token("paragraph_close", -1)
    IN [ok |-> TRUE,
        st |-> [st EXCEPT !.line = nextLine, !.tokens = @ \o <<open, inline, close>>]])

\* the "[link](url)" check on the start line: FALSE when the first "]" is
\* the last character of the line or is not followed by ":"
RECURSIVE LabelMayEnd(_, _, _)
LabelMayEnd(st, pos, max) ==
  IF pos >= max THEN TRUE
  ELSE IF Char(st, pos) = "]" /\ Char(st, pos - 1) # "\\"
       THEN pos + 1 # max /\ Char(st, pos + 1) = ":"
  ELSE LabelMayEnd(st, pos + 1, max)

\* the scan of the label: whether no "[" is in it, the position of the "]"
\* (null when there is none) and the line feeds before it
RECURSIVE LabelScan(_, _, _, _)
LabelScan(str, pos, max, lines) ==
  IF pos >= max THEN [ok |-> TRUE, labelEnd |-> null, lines |-> lines]
  ELSE IF CharAt(str, pos) = "[" THEN [ok |-> FALSE, labelEnd |-> null, lines |-> lines]
  ELSE IF CharAt(str, pos) = "]" THEN [ok |-> TRUE, labelEnd |-> pos, lines |-> lines]
  ELSE LabelScan(str, pos + 1, max, IF CharAt(str, pos) = "\n" THEN lines + 1 ELSE lines)

\* faulty variant: what follows the title on its line is skipped
TitleAndCursor_skipsRest(str, max, destEndPos, destEndLineNo) ==
  With(SkipWhite(str, destEndPos, max, destEndLineNo), LAMBDA white :
  With(parseLinkTitle(str, white.pos, max), LAMBDA res :
    IF white.pos < max /\ destEndPos # white.pos /\ res.ok
    THEN [title |-> res.str, pos |-> max, lines |-> white.lines + res.lines]
    ELSE [title |-> <<>>, pos |-> SkipLineSpaces(str, destEndPos, max),
          lines |-> destEndLineNo]))

\* faulty variant: a title with something after it on its line is kept
TitleAndCursor_noRollback(str, max, destEndPos, destEndLineNo) ==
  With(SkipWhite(str, destEndPos, max, destEndLineNo), LAMBDA white :
  With(parseLinkTitle(str, white.pos, max), LAMBDA res :
    IF white.pos < max /\ destEndPos # white.pos /\ res.ok
    THEN [title |-> res.str, pos |-> SkipLineSpaces(str, res.pos, max),
          lines |-> white.lines + res.lines]
    ELSE [title |-> <<>>, pos |-> SkipLineSpaces(str, destEndPos, max),
          lines |-> destEndLineNo]))

\* the title of the definition and the cursor after it: the title that
\* parseLinkTitle found, or no title and the cursor after the destination;
\* then, when something other than spaces follows a title on its line, no
\* title and the cursor at what follows the spaces after the destination
TitleAndCursor(str, max, destEndPos, destEndLineNo) ==
  With(SkipWhite(str, destEndPos, max, destEndLineNo), LAMBDA white :
  With(parseLinkTitle(str, white.pos, max), LAMBDA res :
    LET found == white.pos < max /\ destEndPos # white.pos /\ res.ok
        title == IF found THEN res.str ELSE <<>>
        pos1 == IF found THEN res.pos ELSE destEndPos
        lines1 == IF found THEN white.lines + res.lines ELSE destEndLineNo
    IN With(SkipLineSpaces(str, pos1, max), LAMBDA pos2 :
         IF pos2 < max /\ CharAt(str, pos2) # "\n" /\ title # <<>>
         THEN [title |-> <<>>, pos |-> SkipLineSpaces(str, destEndPos, max),
               lines |-> destEndLineNo]
         ELSE [title |-> title, pos |-> pos2, lines |-> lines1])))

\* faulty variant: a key that is set is overwritten
setReference_overwrites(references, key, entry) ==
  IF \E i \in DOMAIN references : references[i].key = key
  THEN [i \in DOMAIN references |->
          IF references[i].key = key THEN entry ELSE references[i]]
  ELSE Append(references, entry)

\* state.env.references[labelNorm] is set when it is undefined
setReference(references, key, entry) ==
  IF \E i \in DOMAIN references : references[i].key = key
  THEN references
  ELSE Append(references, entry)

\* the definition rule. From the search for the end of the paragraph on the
\* state's parentType is "reference"; only the accepting return restores it.
reference(st, startLine, endLine, silent) ==
  LET pos0 == At(st.bMarks, startLine) + At(st.tShift, startLine)
      max0 == At(st.eMarks, startLine)
      stRef == [st EXCEPT !.parentType = "reference"]
      declined == [ok |-> FALSE, st |-> stRef]
  IN IF At(st.sCount, startLine) - st.blkIndent >= 4 THEN [ok |-> FALSE, st |-> st]
     ELSE IF Char(st, pos0) # "[" THEN [ok |-> FALSE, st |-> st]
     ELSE IF ~LabelMayEnd(st, pos0 + 1, max0) THEN [ok |-> FALSE, st |-> st]
     ELSE
       With(Trim(JoinNL(getLines(st, startLine,
                                 ParagraphEnd(stRef, startLine + 1, st.lineMax),
                                 st.blkIndent))), LAMBDA str :
       With(LabelScan(str, 1, Len(str), 0), LAMBDA label :
         IF ~label.ok THEN declined
         ELSE IF label.labelEnd = null \/ CharAt(str, label.labelEnd + 1) # ":"
         THEN declined
         ELSE
       With(SkipWhite(str, label.labelEnd + 2, Len(str), label.lines), LAMBDA white :
       With(parseLinkDestination(str, white.pos, Len(str)), LAMBDA res :
         IF ~res.ok THEN declined
         ELSE IF ~validateLink(normalizeLink(res.str)) THEN declined
         ELSE
       With(TitleAndCursor(str, Len(str), res.pos, white.lines + res.lines), LAMBDA tc :
       With(normalizeReferenceStr(Slice(str, 1, label.labelEnd)), LAMBDA labelNorm :
         LET href == normalizeLink(res.str)
             token == [Token("definition", 0) EXCEPT
                         !.map = <<startLine, startLine + tc.lines>>,
                         !.meta = [title |-> tc.title, href |-> href,
                                   raw |-> Slice(str, 1, label.labelEnd),
                                   key |-> labelNorm]]
         IN IF tc.pos < Len(str) /\ CharAt(str, tc.pos) # "\n" THEN declined
            ELSE IF labelNorm = <<>> THEN declined
            ELSE IF silent THEN [ok |-> TRUE, st |-> stRef]
            ELSE [ok |-> TRUE,
                  st |-> [st EXCEPT
                            !.tokens = Append(@, token),
                            !.env.references =
                              setReference(@, labelNorm,
                                [key |-> labelNorm, href |-> href, title |-> tc.title]),
                            !.line = startLine + tc.lines + 1]]))))))

\* faulty variant: a div that is not closed by a line gets no div_close token
parseDiv_unclosedNoClose(st, startLine, endLine, silent) ==
  LET start == At(st.bMarks, startLine) + At(st.tShift, startLine)
      max == At(st.eMarks, startLine)
      pos == MarkerRunEnd(st, start + 1, max)
      marker_count == pos - start
      markup == slice(st, start, pos)
      params == slice(st, pos, max)
  IN IF Char(st, start) # ":" THEN [ok |-> FALSE, st |-> st]
     ELSE IF marker_count < 3 THEN [ok |-> FALSE, st |-> st]
     ELSE IF silent THEN [ok |-> TRUE, st |-> st]
     ELSE
       With(DivScan(st, startLine, endLine, start, pos, TRUE, null, marker_count),
            LAMBDA found :
         LET nextLine == found.nextLine
             open == [Token("div_open", 1) EXCEPT
                        !.markup = markup,
                        !.info = params,
                        !.map = <<startLine, nextLine>>,
                        !.meta = IF found.optionsEndLine # null
                                 THEN DivMeta(st, startLine, found.optionsEndLine)
                                 ELSE NoMeta]
             contentStart == IF found.optionsEndLine # null
                             THEN found.optionsEndLine ELSE startLine
             close == [Token("div_close", -1) EXCEPT
                         !.markup = slice(st, found.start, found.pos)]
         IN With(tokenize([st EXCEPT !.parentType = "div", !.lineMax = nextLine,
                                     !.tokens = Append(@, open)],
                          contentStart + 1, nextLine),
                 LAMBDA st2 :
              [ok |-> TRUE,
               st |-> [st2 EXCEPT !.tokens = IF found.auto_closed THEN Append(@, close) ELSE @,
                                  !.parentType = st.parentType,
                                  !.lineMax = st.lineMax,
                                  !.line = nextLine + (IF found.auto_closed THEN 1 ELSE 0)]]))

\* faulty variant: the body is tokenized to the end of the enclosing scope
parseDiv_bodyToScopeEnd(st, startLine, endLine, silent) ==
  LET start == At(st.bMarks, startLine) + At(st.tShift, startLine)
      max == At(st.eMarks, startLine)
      pos == MarkerRunEnd(st, start + 1, max)
      marker_count == pos - start
      markup == slice(st, start, pos)
      params == slice(st, pos, max)
  IN IF Char(st, start) # ":" THEN [ok |-> FALSE, st |-> st]
     ELSE IF marker_count < 3 THEN [ok |-> FALSE, st |-> st]
     ELSE IF silent THEN [ok |-> TRUE, st |-> st]
     ELSE
       With(DivScan(st, startLine, endLine, start, pos, TRUE, null, marker_count),
            LAMBDA found :
         LET nextLine == found.nextLine
             open == [Token("div_open", 1) EXCEPT
                        !.markup = markup,
                        !.info = params,
                        !.map = <<startLine, nextLine>>,
                        !.meta = IF found.optionsEndLine # null
                                 THEN DivMeta(st, startLine, found.optionsEndLine)
                                 ELSE NoMeta]
             contentStart == IF found.optionsEndLine # null
                             THEN found.optionsEndLine ELSE startLine
             close == [Token("div_close", -1) EXCEPT
                         !.markup = slice(st, found.start, found.pos)]
         IN With(tokenize([st EXCEPT !.parentType = "div",
                                     !.tokens = Append(@, open)],
                          contentStart + 1, endLine),
                 LAMBDA st2 :
              [ok |-> TRUE,
               st |-> [st2 EXCEPT !.tokens = Append(@, close),
                                  !.parentType = st.parentType,
                                  !.lineMax = st.lineMax,
                                  !.line = nextLine + (IF found.auto_closed THEN 1 ELSE 0)]]))

parseDiv(st, startLine, endLine, silent) ==
  LET start == At(st.bMarks, startLine) + At(st.tShift, startLine)
      max == At(st.eMarks, startLine)
      pos == MarkerRunEnd(st, start + 1, max)
      marker_count == pos - start
      markup == slice(st, start, pos)
      params == slice(st, pos, max)
  IN IF Char(st, start) # ":" THEN [ok |-> FALSE, st |-> st]
     ELSE IF marker_count < 3 THEN [ok |-> FALSE, st |-> st]
     ELSE IF silent THEN [ok |-> TRUE, st |-> st]
     ELSE
       With(DivScan(st, startLine, endLine, start, pos, TRUE, null, marker_count),
            LAMBDA found :
         LET nextLine == found.nextLine
             open == [Token("div_open", 1) EXCEPT
                        !.markup = markup,
                        !.info = params,
                        !.map = <<startLine, nextLine>>,
                        !.meta = IF found.optionsEndLine # null
                                 THEN DivMeta(st, startLine, found.optionsEndLine)
                                 ELSE NoMeta]
             contentStart == IF found.optionsEndLine # null
                             THEN found.optionsEndLine ELSE startLine
             close == [Token("div_close", -1) EXCEPT
                         !.markup = slice(st, found.start, found.pos)]
         IN With(tokenize([st EXCEPT !.parentType = "div", !.lineMax = nextLine,
                                     !.tokens = Append(@, open)],
                          contentStart + 1, nextLine),
                 LAMBDA st2 :
              [ok |-> TRUE,
               st |-> [st2 EXCEPT !.tokens = Append(@, close),
                                  !.parentType = st.parentType,
                                  !.lineMax = st.lineMax,
                                  !.line = nextLine + (IF found.auto_closed THEN 1 ELSE 0)]]))

-----------------------------------------------------------------------------
(* The server's events *)

Server == [cache |-> cache, db |-> db]

Event(op, uri, cells) ==
  [op |-> op, uri |-> uri, cells |-> cells, parents |-> {}, had |-> {},
   text |-> <<>>]

\* no scan has started, and no workspace/configuration request was sent
NoPending == [scans |-> <<>>, requests |-> <<>>]

\* the constructor of the server of src/server/src/server.ts
NoSettings == [initialized |-> FALSE, hasConfigurationCapability |-> FALSE, ofUri |-> EmptyMap]

Init ==
  /\ cache = NewDocCache
  /\ db = <<>>
  /\ documents = {}
  /\ notebooks = EmptyMap
  /\ lastEvent = Event("new", "", {})
  /\ state = Idle
  /\ pending = NoPending
  /\ settings = NoSettings

Becomes(s) == cache' = s.cache /\ db' = s.db

\* textDocument/didOpen: the manager fires onDidOpen, then onDidChangeContent
DocOpen(uri, text) ==
  /\ uri \notin documents
  /\ documents' = documents \cup {uri}
  /\ Becomes(onDocChange(Server, uri, text))
  /\ lastEvent' = [Event("docOpen", uri, {}) EXCEPT !.text = text]
  /\ UNCHANGED <<settings, pending, notebooks, state>>

\* textDocument/didChange
DocChange(uri, text) ==
  /\ uri \in documents
  /\ Becomes(onDocChange(Server, uri, text))
  /\ lastEvent' = [Event("docChange", uri, {}) EXCEPT !.text = text]
  /\ UNCHANGED <<settings, pending, documents, notebooks, state>>

\* textDocument/didClose
DocClose(uri) ==
  /\ uri \in documents
  /\ documents' = documents \ {uri}
  /\ Becomes(onDocClose(Server, uri))
  /\ lastEvent' = Event("docClose", uri, {})
  /\ UNCHANGED <<settings, pending, notebooks, state>>

\* notebookDocument/didOpen
NbOpen(nbUri, cells, textOf) ==
  /\ nbUri \notin DOMAIN notebooks
  /\ Range(cells) \subseteq CellsOf(nbUri)
  /\ notebooks' = [n \in DOMAIN notebooks \cup {nbUri} |->
                     IF n = nbUri THEN Range(cells) ELSE notebooks[n]]
  /\ Becomes(onNbOpen(Server, nbUri, cells, textOf))
  /\ lastEvent' = Event("nbOpen", nbUri, {})
  /\ UNCHANGED <<settings, pending, documents, state>>

\* notebookDocument/didChange; an event without change.cells has three empty lists
NbChange(nbUri, removed, added, changed, textOf) ==
  /\ nbUri \in DOMAIN notebooks
  /\ notebooks' = [notebooks EXCEPT ![nbUri] = (@ \ Range(removed)) \cup Range(added)]
  /\ Becomes(onNbChange(Server, nbUri, removed, added, changed, textOf))
  /\ lastEvent' = Event("nbChange", nbUri, {})
  /\ UNCHANGED <<settings, pending, documents, state>>

\* notebookDocument/didClose
NbClose(nbUri) ==
  /\ nbUri \in DOMAIN notebooks
  /\ notebooks' = Restrict(notebooks, DOMAIN notebooks \ {nbUri})
  /\ Becomes(onNbClose(Server, nbUri))
  /\ lastEvent' = Event("nbClose", nbUri, notebooks[nbUri])
  /\ UNCHANGED <<settings, pending, documents, state>>

\* workspace/didChangeWatchedFiles for one file; lastEvent.had tells whether
\* the index held a record of the file
FilesChanged(uri, type) ==
  /\ Becomes(onDidChangeWatchedFiles(Server, uri, type))
  /\ lastEvent' = [Event(type, uri, {}) EXCEPT !.had = {r.uri : r \in Range(db)} \cap {uri}]
  /\ UNCHANGED <<settings, pending, documents, notebooks, state>>

FileChangeTypes == {"Created", "Changed", "Deleted"}

\* the targets a file [uri, text] declares: one for each "(label)=" line
DeclaredIn(file) ==
  {[name |-> file.text[i].label, uri |-> file.uri, line |-> i - 1] :
     i \in {k \in DOMAIN file.text : file.text[k].kind = "target"}}

\* the markdown cells of a notebook file, as [uri, text] files
MarkdownCells(nbUri, cells) ==
  {[uri |-> cellUriGenerate(nbUri, i - 1), text |-> cells[i].source] :
     i \in {k \in DOMAIN cells : cells[k].cell_type = "markdown"}}

\* a project scan (on initialisation, or when the configuration changed);
\* lastEvent.cells is the set of targets the scanned files declare
ProjectScan(filesText, filesNb) ==
  /\ Becomes(analyzeProject(Server, filesText, filesNb))
  /\ lastEvent' = Event("scan", "",
                        UNION {DeclaredIn(file) :
                                 file \in Range(filesText)
                                   \cup UNION {MarkdownCells(filesNb[i].uri, filesNb[i].cells) :
                                                 i \in DOMAIN filesNb}})
  /\ UNCHANGED <<settings, pending, documents, notebooks, state>>

\* the files on disk. Their texts: the empty text, "(a)=", and "[K]: /y"
\* followed by "(a)="
DiskTexts == {<<>>, <<TargetLine("a")>>, <<DefLine("K", "/y"), TargetLine("a")>>}
\* the cells of a notebook file
DiskCell == [cell_type : {"markdown"}, source : DiskTexts]
              \cup {[cell_type |-> "code", source |-> <<>>]}
DiskCells == {<<>>} \cup {<<c>> : c \in DiskCell}
               \cup {<<c1, c2>> : c1 \in DiskCell, c2 \in DiskCell}
\* what the two globs can find
FilesText == {<<>>} \cup {<<[uri |-> uri, text |-> text]>> : uri \in Docs, text \in DiskTexts}
FilesNb == {<<>>} \cup {<<[uri |-> nbUri, cells |-> cells]>> :
                          nbUri \in Notebooks, cells \in DiskCells}

\* the cell lists of a didChange event for an open notebook: no change.cells,
\* one cell of the notebook removed, one new cell added, or the text of one
\* cell of the notebook changed. An event that lists more runs the same loop
\* bodies one after the other, as a sequence of these events does.
NbChanges(nbUri) ==
  IF nbUri \notin DOMAIN notebooks THEN {}
  ELSE LET cur == notebooks[nbUri]
           none == [removed |-> <<>>, added |-> <<>>, changed |-> <<>>]
       IN {none}
          \cup {[none EXCEPT !.removed = <<cell>>] : cell \in cur}
          \cup {[none EXCEPT !.added = <<cell>>] : cell \in CellsOf(nbUri) \ cur}
          \cup {[none EXCEPT !.changed = <<cell>>] : cell \in cur}

Next ==
  \/ \E uri \in Docs, text \in Texts : DocOpen(uri, text)
  \/ \E uri \in Docs, text \in Texts : DocChange(uri, text)
  \/ \E uri \in Docs : DocClose(uri)
  \/ \E nbUri \in Notebooks :
       \E cells \in OrderedSubsets(CellsOf(nbUri)) :
         \E textOf \in [Range(cells) -> Texts] : NbOpen(nbUri, cells, textOf)
  \/ \E nbUri \in Notebooks :
       \E ev \in NbChanges(nbUri) :
         \E textOf \in [Range(ev.added) \cup Range(ev.changed) -> Texts] :
           NbChange(nbUri, ev.removed, ev.added, ev.changed, textOf)
  \/ \E nbUri \in Notebooks : NbClose(nbUri)
  \/ \E uri \in Docs \cup Notebooks, type \in FileChangeTypes : FilesChanged(uri, type)

Spec == Init /\ [][Next]_vars

\* the server with project scans: open, change and close events of documents,
\* open and close events of notebooks, and scans of the files on disk
\* The scan as the calls of analyzeProject run it: a call waits for the glob
\* of the text files, for the glob of the notebook files and for the
\* progress reporter; from db.clear() on it waits for nothing that another
\* handler could run before. pending.scans has the calls in the order they
\* were made: the await a call is at (or "done"), the paths the globs gave
\* it, and the calls that were waiting when it was made.

\* how many calls of analyzeProject are made
MaxScans == 2

ScansAt(stages) == {i \in DOMAIN pending.scans : pending.scans[i].stage \in stages}

\* onInitialized or updateConfig calls analyzeProject, which starts the
\* first glob
ScanStart ==
  /\ Len(pending.scans) < MaxScans
  /\ pending' = [pending EXCEPT !.scans =
                   Append(@, [stage |-> "text", filesText |-> <<>>, filesNb |-> <<>>,
                              during |-> ScansAt({"text", "jupyter", "progress"})])]
  /\ lastEvent' = Event("scanStart", "", {})
  /\ UNCHANGED <<settings, cache, db, documents, notebooks, state>>

\* glob(this.config.files.text) gives the paths of the text files
ScanGlobText(i, paths) ==
  /\ i \in ScansAt({"text"})
  /\ pending' = [pending EXCEPT !.scans[i].stage = "jupyter",
                                !.scans[i].filesText = paths]
  /\ lastEvent' = Event("scanGlobText", "", {})
  /\ UNCHANGED <<settings, cache, db, documents, notebooks, state>>

\* glob(this.config.files.jupyter) gives the paths of the notebook files
ScanGlobNb(i, paths) ==
  /\ i \in ScansAt({"jupyter"})
  /\ pending' = [pending EXCEPT !.scans[i].stage = "progress",
                                !.scans[i].filesNb = paths]
  /\ lastEvent' = Event("scanGlobNb", "", {})
  /\ UNCHANGED <<settings, cache, db, documents, notebooks, state>>

\* the progress reporter is there: the index is cleared, and each file of
\* the two lists is read and parsed. lastEvent.cells is the set of targets
\* the files declare, lastEvent.had the URIs the index had records of
ScanFinish(i, textOf, cellsOf) ==
  /\ i \in ScansAt({"progress"})
  /\ LET scan == pending.scans[i]
         filesText == [k \in DOMAIN scan.filesText |->
                         [uri |-> scan.filesText[k], text |-> textOf[scan.filesText[k]]]]
         filesNb == [k \in DOMAIN scan.filesNb |->
                       [uri |-> scan.filesNb[k], cells |-> cellsOf[scan.filesNb[k]]]]
     IN /\ Becomes(analyzeProject(Server, filesText, filesNb))
        /\ lastEvent' =
             [Event("scanFinish", "",
                    UNION {DeclaredIn(file) :
                             file \in Range(filesText)
                               \cup UNION {MarkdownCells(filesNb[k].uri, filesNb[k].cells) :
                                             k \in DOMAIN filesNb}})
                EXCEPT !.had = {r.uri : r \in Range(db)}]
  /\ pending' = [pending EXCEPT !.scans[i].stage = "done",
                                !.scans[i].filesText = <<>>,
                                !.scans[i].filesNb = <<>>]
  /\ UNCHANGED <<settings, documents, notebooks, state>>

NextScans ==
  \/ ScanStart
  \/ \E i \in 1..MaxScans, paths \in Orderings(Docs) \cup {<<>>} : ScanGlobText(i, paths)
  \/ \E i \in 1..MaxScans, paths \in Orderings(Notebooks) \cup {<<>>} : ScanGlobNb(i, paths)
  \/ \E i \in ScansAt({"progress"}) :
       \E textOf \in [Range(pending.scans[i].filesText) -> DiskTexts],
          cellsOf \in [Range(pending.scans[i].filesNb) -> DiskCells] :
         ScanFinish(i, textOf, cellsOf)

SpecScans == Init /\ [][NextScans]_vars

\* The server of src/server/src/server.ts. Its parseTextDocument awaits the
\* settings of the document, which getDocumentSettings asks the client for
\* when the client has the workspace/configuration capability: the parse
\* goes on when the client has answered. pending.requests has the requests
\* in the order they were sent: whether the answer has come, and the
\* parses that wait for it, each with the TextDocument it was called with
\* (its URI, its text, and whether the document manager still has the
\* object, which it updates in place on a change).

\* how many workspace/configuration requests are sent
MaxRequests == 2
\* how many records the parses may put into the Project Target Index
MaxRecords == 2

ServerSettings == [cache |-> cache, db |-> db, settings |-> settings, pending |-> pending]

BecomesSettings(s) ==
  /\ cache' = s.cache
  /\ db' = s.db
  /\ settings' = s.settings
  /\ pending' = s.pending

\* parseTextDocument after the await: the snapshot is set, and the targets
\* are inserted
parseTextDocumentRest(s, uri, text) ==
  LET parsed == parseTextDocument(uri, text)
  IN [s EXCEPT !.cache = setData(@, uri, [tokens |-> parsed.tokens,
                                          lineToTokenIndex |-> parsed.lineToTokenIndex,
                                          defs |-> parsed.definitions]),
               !.db = insertTargets(@, parsed.targets)]

\* parseTextDocument up to the await of getDocumentSettings(uri): the
\* global settings are there at once; so are settings that were asked for
\* and have come; else the parse waits for the request that is cached for
\* the URI, or for a new one
parseTextDocumentAwait(s, uri, text) ==
  LET waiter == [uri |-> uri, text |-> text, live |-> TRUE]
  IN IF ~s.settings.hasConfigurationCapability THEN parseTextDocumentRest(s, uri, text)
     ELSE IF uri \in DOMAIN s.settings.ofUri
     THEN LET p == s.settings.ofUri[uri]
          IN IF s.pending.requests[p].resolved THEN parseTextDocumentRest(s, uri, text)
             ELSE [s EXCEPT !.pending.requests[p].waiters = Append(@, waiter)]
     ELSE [s EXCEPT !.settings.ofUri =
                       [u \in DOMAIN @ \cup {uri} |->
                          IF u = uri THEN Len(s.pending.requests) + 1 ELSE @[u]],
                    !.pending.requests =
                       Append(@, [resolved |-> FALSE, waiters |-> <<waiter>>])]

\* the parses that wait for a request go on, in the order they came to wait
RECURSIVE Resume(_, _)
Resume(s, waiters) ==
  IF waiters = <<>> THEN s
  ELSE Resume(parseTextDocumentRest(s, Head(waiters).uri, Head(waiters).text),
              Tail(waiters))

\* the waiting parses of the TextDocument object the document manager has
\* for uri
OfDocument(requests, uri, F(_)) ==
  [p \in DOMAIN requests |->
     [requests[p] EXCEPT !.waiters =
        [k \in DOMAIN @ |-> IF @[k].uri = uri /\ @[k].live THEN F(@[k]) ELSE @[k]]]]

\* the parses that wait
Waiting ==
  UNION {{<<p, k>> : k \in DOMAIN pending.requests[p].waiters} : p \in DOMAIN pending.requests}

\* a parse may start: the bounds leave room for a request and for its records
ParseRoom ==
  /\ settings.initialized
  /\ Len(pending.requests) < MaxRequests
  /\ Len(db) + Cardinality(Waiting) < MaxRecords

\* initialize, with the capabilities of the client
OnInitialize(capability) ==
  /\ ~settings.initialized
  /\ settings' = [settings EXCEPT !.initialized = TRUE,
                                  !.hasConfigurationCapability = capability]
  /\ lastEvent' = Event("initialize", "", {})
  /\ UNCHANGED <<cache, db, documents, notebooks, state, pending>>

\* textDocument/didOpen: the manager makes a TextDocument and fires
\* onDidChangeContent
DidOpen(uri, text) ==
  /\ ParseRoom
  /\ uri \notin documents
  /\ documents' = documents \cup {uri}
  /\ BecomesSettings(parseTextDocumentAwait(ServerSettings, uri, text))
  /\ lastEvent' = [Event("didOpen", uri, {}) EXCEPT !.text = text]
  /\ UNCHANGED <<notebooks, state>>

\* textDocument/didChange: the manager updates its TextDocument and fires
\* onDidChangeContent
DidChange(uri, text) ==
  /\ ParseRoom
  /\ uri \in documents
  /\ BecomesSettings(
       parseTextDocumentAwait(
         [ServerSettings EXCEPT !.pending.requests =
            OfDocument(@, uri, LAMBDA w : [w EXCEPT !.text = text])],
         uri, text))
  /\ lastEvent' = [Event("didChange", uri, {}) EXCEPT !.text = text]
  /\ UNCHANGED <<documents, notebooks, state>>

\* textDocument/didClose: the manager drops its TextDocument, and the
\* handler of the server calls cache.removeUri, which deletes the snapshot
\* and the settings of the URI
DidClose(uri) ==
  /\ uri \in documents
  /\ documents' = documents \ {uri}
  /\ cache' = [cache EXCEPT !.data = Restrict(@, DOMAIN @ \ {uri})]
  /\ settings' = [settings EXCEPT !.ofUri = Restrict(@, DOMAIN @ \ {uri})]
  /\ pending' = [pending EXCEPT !.requests =
                   OfDocument(@, uri, LAMBDA w : [w EXCEPT !.live = FALSE])]
  /\ lastEvent' = Event("didClose", uri, {})
  /\ UNCHANGED <<db, notebooks, state>>

\* the client answers a workspace/configuration request; lastEvent.cells
\* has the URIs of the parses that go on
ConfigurationResponse(p) ==
  /\ p \in DOMAIN pending.requests
  /\ ~pending.requests[p].resolved
  /\ BecomesSettings(
       Resume([ServerSettings EXCEPT !.pending.requests[p] =
                 [resolved |-> TRUE, waiters |-> <<>>]],
              pending.requests[p].waiters))
  /\ lastEvent' = Event("configuration", "",
                        {w.uri : w \in Range(pending.requests[p].waiters)})
  /\ UNCHANGED <<documents, notebooks, state>>

NextSettings ==
  \/ \E capability \in BOOLEAN : OnInitialize(capability)
  \/ \E uri \in Docs, text \in Texts : DidOpen(uri, text)
  \/ \E uri \in Docs, text \in Texts : DidChange(uri, text)
  \/ \E uri \in Docs : DidClose(uri)
  \/ \E p \in 1..MaxRequests : ConfigurationResponse(p)

SpecSettings == Init /\ [][NextSettings]_vars

NextProject ==
  \/ \E uri \in Docs, text \in Texts : DocOpen(uri, text)
  \/ \E uri \in Docs, text \in Texts : DocChange(uri, text)
  \/ \E uri \in Docs : DocClose(uri)
  \/ \E nbUri \in Notebooks :
       \E cells \in OrderedSubsets(CellsOf(nbUri)) :
         \E textOf \in [Range(cells) -> Texts] : NbOpen(nbUri, cells, textOf)
  \/ \E nbUri \in Notebooks : NbClose(nbUri)
  \/ \E filesText \in FilesText, filesNb \in FilesNb : ProjectScan(filesText, filesNb)

SpecProject == Init /\ [][NextProject]_vars

-----------------------------------------------------------------------------
(* The block parser at work on one document *)

\* how many lines a source text has at most
MaxSrcLines == 3

\* the lines of the source texts: ":::{n}", "::: " (with a space after the
\* colons), "::::", "::", "    :::" (indented by four), ":k: v", ":- x", "f"
\* and the empty line
SrcLines ==
  { <<":", ":", ":", "{", "n", "}">>,
    <<":", ":", ":", " ">>,
    <<":", ":", ":", ":">>,
    <<":", ":">>,
    <<" ", " ", " ", " ", ":", ":", ":">>,
    <<":", "k", ":", " ", "v">>,
    <<":", "-", " ", "x">>,
    <<"f">>,
    <<>> }

NoteLine == <<":", ":", ":", "{", "n", "o", "t", "e", "}">>
FenceLine == <<":", ":", ":">>
FooLine == <<"f", "o", "o">>
KeyLine == <<":", "k", ":", " ", "v">>

\* further source texts: ":::{note}" with the line "title: hi" and with the
\* option line ":title: hi", closed by ":::" and followed by "foo"; a div
\* with the option line ":x", ":null", ":" or ":["; a div of four colons
\* closed by a line of four colons indented by three; and divs with a line
\* ":k: v" after a line of text, after an empty line, and indented by three
\* and by four
TitleExample ==
  <<NoteLine, <<"t", "i", "t", "l", "e", ":", " ", "h", "i">>, FenceLine, FooLine>>
OptionExample ==
  <<NoteLine, <<":", "t", "i", "t", "l", "e", ":", " ", "h", "i">>, FenceLine, FooLine>>
Examples ==
  { TitleExample,
    OptionExample,
    <<NoteLine, <<":", "x">>, FooLine, FenceLine>>,
    <<NoteLine, <<":", "n", "u", "l", "l">>, FooLine, FenceLine>>,
    <<NoteLine, <<":">>, FooLine, FenceLine>>,
    <<NoteLine, <<":", "[">>, FooLine, FenceLine>>,
    <<<<":", ":", ":", ":">>, FenceLine, <<" ", " ", " ", ":", ":", ":", ":">>, FooLine>>,
    <<NoteLine, KeyLine, FooLine, KeyLine, FenceLine>>,
    <<FenceLine, <<" ", " ", " ">> \o KeyLine, <<" ", " ", " ", " ">> \o KeyLine, KeyLine,
      FenceLine>>,
    <<FenceLine, KeyLine, <<>>, KeyLine, FenceLine>> }

Sources == (UNION {[1..n -> SrcLines] : n \in 0..MaxSrcLines}) \cup Examples

\* md.parse(text): a new StateBlock for the text
MdParse(lines) ==
  /\ state.phase = "idle"
  /\ state' = StateBlock(lines, "block")
  /\ lastEvent' = Event("parse", "", {})
  /\ UNCHANGED <<settings, pending, cache, db, documents, notebooks>>

\* the line the tokenizer's loop is at, after the empty lines
TopLine == skipEmptyLines(state, state.line)

AtBlock ==
  /\ state.phase = "block"
  /\ state.line < state.lineMax
  /\ TopLine < state.lineMax

\* the rule that accepts at the line the loop is at
TopRule == tryRules([state EXCEPT !.line = TopLine], TopLine, state.lineMax).rule

\* one turn of the loop of tokenize(state, 0, lineMax); lastEvent.cells has
\* the line the rule started at
Turn(rule) ==
  /\ state' = tokenizeRule([state EXCEPT !.line = TopLine], TopLine, state.lineMax)
  /\ lastEvent' = Event(rule, "", {TopLine})
  /\ UNCHANGED <<settings, pending, cache, db, documents, notebooks>>

\* a turn in which the code rule accepts
RuleCode ==
  /\ AtBlock
  /\ TopRule = "code"
  /\ Turn("code")

\* a turn in which the div rule accepts
RuleDiv ==
  /\ AtBlock
  /\ TopRule = "div"
  /\ Turn("div")

\* a turn in which the paragraph rule accepts
RuleParagraph ==
  /\ AtBlock
  /\ TopRule = "paragraph"
  /\ Turn("paragraph")

\* the loop is left, and parseTextDocument builds the line index
ParseEnd ==
  /\ state.phase = "block"
  /\ state.frames = <<>>
  /\ ~AtBlock
  /\ state' = [state EXCEPT !.line = IF state.line < state.lineMax THEN TopLine ELSE @,
                            !.phase = "done",
                            !.lineToTokenIndex = buildLineToTokenIndex(state.tokens)]
  /\ lastEvent' = Event("index", "", {})
  /\ UNCHANGED <<settings, pending, cache, db, documents, notebooks>>

NextParse ==
  \/ \E lines \in Sources : MdParse(lines)
  \/ RuleCode
  \/ RuleDiv
  \/ RuleParagraph
  \/ ParseEnd

SpecParse == Init /\ [][NextParse]_vars

-----------------------------------------------------------------------------
(* The block parser at work on documents with MyST blocks and definitions *)

\* how many lines a source text of MystLines has at most
MaxMystLines == 2

\* the lines of these source texts: "(a)=", "(a)=x", "()=", "% c " (with a
\* space at the end), "+ ++ t " (with a space at the end), "++", "[k]: /x",
\* "[K]: /y 't'", "[k]: /x 't' g", "'t' g", "[k]: <x", "[ ]: /x", "    % c"
\* (indented by four), "f", the empty line and ":::"
MystLines ==
  { <<"(", "a", ")", "=">>,
    <<"(", "a", ")", "=", "x">>,
    <<"(", ")", "=">>,
    <<"%", " ", "c", " ">>,
    <<"+", " ", "+", "+", " ", "t", " ">>,
    <<"+", "+">>,
    <<"[", "k", "]", ":", " ", "/", "x">>,
    <<"[", "K", "]", ":", " ", "/", "y", " ", "'", "t", "'">>,
    <<"[", "k", "]", ":", " ", "/", "x", " ", "'", "t", "'", " ", "g">>,
    <<"'", "t", "'", " ", "g">>,
    <<"[", "k", "]", ":", " ", "<", "x">>,
    <<"[", " ", "]", ":", " ", "/", "x">>,
    <<" ", " ", " ", " ", "%", " ", "c">>,
    <<"f">>,
    <<>>,
    <<":", ":", ":">> }

\* a label of n characters
LongLabel(n) == <<"(">> \o [i \in 1..n |-> "a"] \o <<")", "=">>

\* further source texts: lines with trailing white space, with an indent of
\* one and of four, a label without colon, a definition over two lines, a
\* data: URL, comments and targets after a paragraph and in a div, the same
\* key three times, a title on its own line, a destination in angle
\* brackets, "++ f", an empty title, and labels of 100 and of 101 characters
MystExamples ==
  { <<<<"(", "a", ")", "=", " ">>, <<"f">>>>,
    <<<<" ", " ", " ", " ", "(", "a", ")", "=">>, <<" ", " ", " ", " ", "+", "+", "+">>>>,
    <<<<" ", " ", " ", " ", "[", "k", "]", ":", " ", "/", "x">>>>,
    <<<<" ", "(", "a", ")", "=">>>>,
    <<<<"[", "k", "]", " ", "/", "x">>>>,
    <<<<"[", "k", "]", ":">>, <<"/", "x">>>>,
    <<<<"[", "k", "]">>, <<"]", ":", " ", "/", "x">>>>,
    <<<<"[", "k", "]", ":", " ", "d", "a", "t", "a", ":", "x">>>>,
    <<<<"(", "s", "e", "c", "-", "i", "n", "t", "r", "o", ")", "=">>, <<"I", "n", "t", "r", "o">>>>,
    <<<<"f">>, <<"(", "a", ")", "=">>, <<"%", " ", "c", " ">>, <<" ", " ", " ", " ", "%", " ", "d">>, <<"f">>>>,
    <<<<"[", "k", "]", ":", " ", "/", "x">>, <<"[", "K", "]", ":", " ", "/", "y">>, <<"[", "k", "]", ":", " ", "/", "z", " ", "'", "t", "'">>>>,
    <<<<":", ":", ":">>, <<"(", "a", ")", "=">>, <<"%", " ", "c">>, <<"[", "k", "]", ":", " ", "/", "x">>>>,
    <<<<"[", "k", "]", ":", " ", "/", "x">>, <<"'", "t", "'">>, <<"f">>>>,
    <<<<"[", "k", "]", ":", " ", "<", "/", "x", " ", "y", ">">>>>,
    <<<<"+", "+", " ", "f">>, <<"+", "+", "+">>>>,
    <<<<"[", "k", "]", ":", " ", "/", "x">>, <<"'", "'", " ", "g">>>>,
    <<LongLabel(MaxLabel)>>,
    <<LongLabel(MaxLabel + 1)>> }

MystSources == (UNION {[1..n -> MystLines] : n \in 0..MaxMystLines}) \cup MystExamples

\* a turn in which the line comment rule accepts
RuleLineComment ==
  /\ AtBlock
  /\ TopRule = "myst_line_comment"
  /\ Turn("myst_line_comment")

\* a turn in which the block break rule accepts
RuleBlockBreak ==
  /\ AtBlock
  /\ TopRule = "myst_block_break"
  /\ Turn("myst_block_break")

\* a turn in which the target rule accepts
RuleTarget ==
  /\ AtBlock
  /\ TopRule = "myst_target"
  /\ Turn("myst_target")

\* a turn in which the definition rule accepts
RuleReference ==
  /\ AtBlock
  /\ TopRule = "reference"
  /\ Turn("reference")

NextMyst ==
  \/ \E lines \in MystSources : MdParse(lines)
  \/ RuleCode
  \/ RuleDiv
  \/ RuleLineComment
  \/ RuleBlockBreak
  \/ RuleTarget
  \/ RuleReference
  \/ RuleParagraph
  \/ ParseEnd

SpecMyst == Init /\ [][NextMyst]_vars

-----------------------------------------------------------------------------
(* The DocCache object alone: arbitrary calls of its public methods *)

\* the snapshots setData is called with are what analyseTextDocument builds
\* from these texts: the empty text, "[k]: /x", "[K]: /y", "[j]: /z" followed
\* by "[k]: /x", and "(a)="
CacheTextList ==
  << <<>>,
     <<DefLine("k", "/x")>>,
     <<DefLine("K", "/y")>>,
     <<DefLine("j", "/z"), DefLine("k", "/x")>>,
     <<TargetLine("a")>> >>
CacheTexts == {CacheTextList[i] : i \in {j \in DOMAIN CacheTextList : j <= MaxTexts}}

Snapshot(uri, text) ==
  LET parsed == parseTextDocument(uri, text)
  IN [tokens |-> parsed.tokens,
      lineToTokenIndex |-> parsed.lineToTokenIndex,
      defs |-> parsed.definitions]

\* the parents whose child set has uri
ParentsOf(c, uri) ==
  {c.parentToChildUri[i].parent :
     i \in {k \in DOMAIN c.parentToChildUri : Contains(c.parentToChildUri[k].children, uri)}}

\* a call, with what the cache held before it: the children of uri, the
\* parents of uri, and which of uri and its children had a snapshot
Call(op, uri) ==
  [op |-> op, uri |-> uri,
   cells |-> Range(ChildrenOf(cache.parentToChildUri, uri)),
   parents |-> ParentsOf(cache, uri),
   had |-> DOMAIN cache.data \cap ({uri} \cup Range(ChildrenOf(cache.parentToChildUri, uri))),
   text |-> <<>>]

CallSetData(uri, text) ==
  /\ cache' = setData(cache, uri, Snapshot(uri, text))
  /\ lastEvent' = Call("setData", uri)
  /\ UNCHANGED <<settings, pending, db, documents, notebooks, state>>

CallRemoveUri(uri) ==
  /\ cache' = removeUri(cache, uri)
  /\ lastEvent' = Call("removeUri", uri)
  /\ UNCHANGED <<settings, pending, db, documents, notebooks, state>>

CallSetParentToChildUri(parentUri, childUri) ==
  /\ cache' = setParentToChildUri(cache, parentUri, childUri)
  /\ lastEvent' = Call("setParentToChildUri", childUri)
  /\ UNCHANGED <<settings, pending, db, documents, notebooks, state>>

CallClear ==
  /\ cache' = clear(cache)
  /\ lastEvent' = Event("clear", "", {})
  /\ UNCHANGED <<settings, pending, db, documents, notebooks, state>>

NextCache ==
  \/ \E uri \in CacheUris, text \in CacheTexts : CallSetData(uri, text)
  \/ \E uri \in CacheUris : CallRemoveUri(uri)
  \/ \E parentUri \in CacheParents, childUri \in CacheChildren :
       CallSetParentToChildUri(parentUri, childUri)
  \/ CallClear

SpecCache == Init /\ [][NextCache]_vars

-----------------------------------------------------------------------------
(* Closing a document: the Project Target Index and the Document Cache *)

TargetNames == {"a"}

\* C1, as the specification states it: a close event for a document (or for a
\* notebook, for each of its cells) empties getTargets(name) for every name
\* that only that document had records for.
C1_CloseRemovesTargets ==
  [][\A uri \in Uris, name \in TargetNames :
       ( /\ \/ lastEvent'.op = "docClose" /\ uri = lastEvent'.uri
            \/ lastEvent'.op = "nbClose" /\ uri \in lastEvent'.cells
         /\ getTargets(db, name) # <<>>
         /\ \A r \in Range(getTargets(db, name)) : r.uri = uri )
       => getTargets(db', name) = <<>>]_vars

\* C1, amended: a close event of a document or of a notebook leaves the
\* Project Target Index as it was, so getTargets(name) still returns the
\* records of the closed document.
C1_CloseKeepsTargets ==
  [][lastEvent'.op \in {"docClose", "nbClose"} => db' = db]_vars

\* a document with a target record was closed: its snapshot is gone, its
\* record is still returned
C1_Witness ==
  /\ lastEvent.op = "docClose"
  /\ \E name \in TargetNames :
       \E r \in Range(getTargets(db, name)) : r.uri = lastEvent.uri

\* C2: a text document that is closed (closed and not opened again since) has
\* no snapshot: getData gives undefined for it, whatever events of other
\* documents and notebooks followed the close.
C2_ClosedDocHasNoData ==
  \A uri \in Docs \ documents : getData(cache, uri) = undefined

\* the document was closed while a notebook cell keeps its snapshot
C2_Witness ==
  /\ lastEvent.op = "docClose"
  /\ lastEvent.uri \notin documents
  /\ getData(cache, lastEvent.uri) = undefined
  /\ \E cell \in Cells : getData(cache, cell) # undefined

-----------------------------------------------------------------------------
(* Notebook cells *)

\* C3: for two cells A and B of an open notebook, iterDefs(B) has every
\* definition of A's snapshot.
C3_SiblingDefsVisible ==
  \A nbUri \in DOMAIN notebooks :
    \A A \in notebooks[nbUri], B \in notebooks[nbUri] :
      A # B =>
        \A def \in Range(DefsOf(cache, A)) : Contains(iterDefs(cache, B, FALSE), def)

\* C4: after a notebook-close event no cell of that notebook has a snapshot.
C4_NotebookCloseDropsCells ==
  lastEvent.op = "nbClose" =>
    \A cell \in CellsOf(lastEvent.uri) : getData(cache, cell) = undefined

-----------------------------------------------------------------------------
(* DocCache.removeUri *)

\* C5: removeUri(p), for p that has a child set, deletes the snapshot of p,
\* the snapshot of every child of p, and the relation entry of p.
C5_RemoveParent ==
  (lastEvent.op = "removeUri" /\ lastEvent.cells # {}) =>
    /\ getData(cache, lastEvent.uri) = undefined
    /\ \A child \in lastEvent.cells : getData(cache, child) = undefined
    /\ ~HasParent(cache.parentToChildUri, lastEvent.uri)

\* removeUri ran on a parent that had a snapshot, with a child that had one
C5_Witness ==
  /\ lastEvent.op = "removeUri"
  /\ lastEvent.uri \in lastEvent.had
  /\ \E child \in lastEvent.cells \cap lastEvent.had : child # lastEvent.uri

\* C6: removeUri(c), for c in the child set of some parent and not itself a
\* parent, deletes the snapshot of c and nothing else, takes c out of every
\* child set it is in and leaves every other member in place, and deletes a
\* relation entry exactly when c was its only child.
C6_RemoveChild ==
  [][( /\ lastEvent'.op = "removeUri"
       /\ ParentsOf(cache, lastEvent'.uri) # {}
       /\ ~HasParent(cache.parentToChildUri, lastEvent'.uri) )
     => LET c == lastEvent'.uri
        IN /\ DOMAIN cache'.data = DOMAIN cache.data \ {c}
           /\ \A u \in DOMAIN cache'.data : cache'.data[u] = cache.data[u]
           /\ \A p \in CacheUris :
                LET before == Range(ChildrenOf(cache.parentToChildUri, p))
                    after == Range(ChildrenOf(cache'.parentToChildUri, p))
                IN /\ after = before \ {c}
                   /\ HasParent(cache'.parentToChildUri, p)
                        <=> (HasParent(cache.parentToChildUri, p) /\ before # {c})]_vars

\* removeUri ran on a child that is no parent, and a sibling with a snapshot
\* is still in the child set
C6_Witness ==
  /\ lastEvent.op = "removeUri"
  /\ lastEvent.cells = {}
  /\ lastEvent.uri \in lastEvent.had
  /\ \E p \in lastEvent.parents :
       \E sibling \in Range(ChildrenOf(cache.parentToChildUri, p)) :
         getData(cache, sibling) # undefined

\* C7: each URI is in the child set of at most one parent.
C7_OneParentPerChild ==
  \A uri \in CacheUris : Cardinality(ParentsOf(cache, uri)) <= 1

-----------------------------------------------------------------------------
(* DocCache.iterDefs *)

\* the other members of the child sets uri is in
SiblingsOf(c, uri) ==
  UNION {Range(ChildrenOf(c.parentToChildUri, p)) : p \in ParentsOf(c, uri)} \ {uri}

RECURSIVE SumOfLens(_, _)
SumOfLens(c, uris) ==
  IF uris = {} THEN 0
  ELSE LET u == CHOOSE v \in uris : TRUE
       IN Len(DefsOf(c, u)) + SumOfLens(c, uris \ {u})

\* the positions of s that hold the first occurrence of their key
FirstOfKey(s) == {i \in DOMAIN s : \A j \in 1..(i - 1) : s[j].key # s[i].key}

\* s is t restricted to the positions in idx, in the order of t
IsSelection(s, t, idx) ==
  /\ Len(s) = Cardinality(idx)
  /\ \A i \in DOMAIN s :
       \E j \in idx : /\ s[i] = t[j]
                      /\ Cardinality({k \in idx : k < j}) = i - 1

\* C8: iterDefs(uri, FALSE) is the definitions of uri, followed by
\* definitions of the other children of uri's parent(s) and by nothing else,
\* every such child's definitions being there (once each, when uri has one
\* parent); iterDefs(uri, TRUE) is that sequence with, for each key, only the
\* first occurrence kept.
C8_IterDefs ==
  \A uri \in CacheUris :
    LET own == DefsOf(cache, uri)
        all == iterDefs(cache, uri, FALSE)
        siblings == SiblingsOf(cache, uri)
    IN /\ Len(all) >= Len(own)
       /\ SubSeq(all, 1, Len(own)) = own
       /\ \A i \in (Len(own) + 1)..Len(all) :
            \E sibling \in siblings : Contains(DefsOf(cache, sibling), all[i])
       /\ \A sibling \in siblings :
            \A def \in Range(DefsOf(cache, sibling)) :
              \E i \in (Len(own) + 1)..Len(all) : all[i] = def
       /\ Cardinality(ParentsOf(cache, uri)) <= 1
            => Len(all) = Len(own) + SumOfLens(cache, siblings)
       /\ IsSelection(iterDefs(cache, uri, TRUE), all, FirstOfKey(all))

\* a child with a definition whose sibling defines the same key differently,
\* next to an unrelated URI with a snapshot
C8_Witness ==
  \E uri \in CacheUris :
    /\ DefsOf(cache, uri) # <<>>
    /\ Len(iterDefs(cache, uri, TRUE)) < Len(iterDefs(cache, uri, FALSE))
    /\ Range(iterDefs(cache, uri, FALSE)) # Range(iterDefs(cache, uri, TRUE))
    /\ \E other \in DOMAIN cache.data \ (SiblingsOf(cache, uri) \cup {uri}) :
         DefsOf(cache, other) # <<>>

-----------------------------------------------------------------------------
(* A URI without a snapshot *)

\* C9, as the specification states it: for a URI without a snapshot getData
\* gives undefined, iterDefs yields nothing and removeUri changes nothing.
C9_NoSnapshotNoEffect ==
  \A uri \in CacheUris :
    uri \notin DOMAIN cache.data =>
      /\ getData(cache, uri) = undefined
      /\ iterDefs(cache, uri, TRUE) = <<>>
      /\ iterDefs(cache, uri, FALSE) = <<>>
      /\ removeUri(cache, uri) = cache

\* uri is neither a key of the relation nor in a child set
Unrelated(c, uri) ==
  ~HasParent(c.parentToChildUri, uri) /\ ParentsOf(c, uri) = {}

\* C9, amended: for a URI without a snapshot getData gives undefined; when
\* the URI is also neither a parent nor a child in the relation, iterDefs
\* yields nothing and removeUri changes nothing.
C9_UnknownUriNoEffect ==
  \A uri \in CacheUris :
    uri \notin DOMAIN cache.data =>
      /\ getData(cache, uri) = undefined
      /\ Unrelated(cache, uri) =>
           /\ iterDefs(cache, uri, TRUE) = <<>>
           /\ iterDefs(cache, uri, FALSE) = <<>>
           /\ removeUri(cache, uri) = cache

\* removeUri ran on a URI the cache did not know, while the cache held a
\* relation entry whose children have snapshots with definitions
C9_Witness ==
  /\ lastEvent.op = "removeUri"
  /\ lastEvent.had = {} /\ lastEvent.cells = {} /\ lastEvent.parents = {}
  /\ Unrelated(cache, lastEvent.uri)
  /\ \E i \in DOMAIN cache.parentToChildUri :
       \A child \in Range(cache.parentToChildUri[i].children) :
         DefsOf(cache, child) # <<>>

-----------------------------------------------------------------------------
(* Targets of the same name *)

\* the records of uri in the index are those of its snapshot
InSync(uri) ==
  /\ uri \in DOMAIN cache.data
  /\ find(db, [uri |-> uri]) = targetsOf(cache.data[uri].tokens, uri)

Declares(uri, name) ==
  /\ uri \in DOMAIN cache.data
  /\ \E t \in Range(targetsOf(cache.data[uri].tokens, uri)) : t.name = name

OpenUris == documents \cup UNION {notebooks[nbUri] : nbUri \in DOMAIN notebooks}

-----------------------------------------------------------------------------
(* Watched files *)

\* C11: a file-deleted notification for u (which calls the index's
\* removeUri(u)) leaves no record owned by u in the Project Target Index,
\* keeps every record owned by another URI, in order, and leaves the whole
\* Document Cache as it was; a file-created or file-changed notification
\* changes neither the index nor the cache.
C11_FileDeleted ==
  [][lastEvent'.op \in FileChangeTypes =>
       /\ cache' = cache
       /\ lastEvent'.op = "Deleted" =>
            /\ \A r \in Range(db') : r.uri # lastEvent'.uri
            /\ db' = SelectSeq(db, LAMBDA r : r.uri # lastEvent'.uri)
       /\ lastEvent'.op # "Deleted" => db' = db]_vars

\* the file of an open document that had records was deleted while a cell
\* has records too
C11_Witness ==
  /\ lastEvent.op = "Deleted"
  /\ lastEvent.uri \in lastEvent.had
  /\ lastEvent.uri \in DOMAIN cache.data
  /\ \E r \in Range(db) : r.uri \in Cells

-----------------------------------------------------------------------------
(* The index after a parse and after a project scan *)

\* the myst-target tokens that have a span
SpannedTargets(tokens) ==
  SelectSeq(tokens, LAMBDA t : t.type = "myst_target" /\ t.map # <<>>)

RecordsOf(uri) == SelectSeq(db, LAMBDA r : r.uri = uri)

\* C12: after an open or a content-change event of a document, whatever
\* events (earlier parses of it, scans, closes) came before, the records the
\* Project Target Index holds for its URI are those of the parse just made:
\* one for each myst-target token of the snapshot that has a span, in order,
\* with the token's content as name, the URI, and the span's start line; no
\* other record of that URI is left.
C12_IndexHoldsLastParse ==
  lastEvent.op \in {"docOpen", "docChange"} =>
    LET uri == lastEvent.uri
        spanned == SpannedTargets(getData(cache, uri).tokens)
        records == RecordsOf(uri)
    IN /\ Len(records) = Len(spanned)
       /\ \A i \in DOMAIN records :
            records[i] = [name |-> spanned[i].content, uri |-> uri,
                          line |-> spanned[i].map[1]]

\* the document was re-parsed with a target while the index has records of
\* cells as well
C12_Witness ==
  /\ lastEvent.op = "docChange"
  /\ RecordsOf(lastEvent.uri) # <<>>
  /\ \E cell \in Cells : RecordsOf(cell) # <<>>

\* C13: a project scan leaves in the Project Target Index exactly the
\* targets the scanned files declare, each once (no record from before the
\* scan survives), and leaves the Document Cache, snapshots and relation,
\* as it was.
C13_ScanReplacesIndex ==
  [][lastEvent'.op = "scan" =>
       /\ cache' = cache
       /\ Range(db') = lastEvent'.cells
       /\ Len(db') = Cardinality(lastEvent'.cells)]_vars

\* a scan found targets while a notebook was open, and an open document
\* that declares a target has no record after it
C13_Witness ==
  /\ lastEvent.op = "scan"
  /\ lastEvent.cells # {}
  /\ cache.parentToChildUri # <<>>
  /\ \E uri \in DOMAIN cache.data :
       SpannedTargets(cache.data[uri].tokens) # <<>> /\ RecordsOf(uri) = <<>>

-----------------------------------------------------------------------------
(* The line index *)

\* the entry of a line in a line index; a line without entry has no token
Entry(index, j) == IF j \in DOMAIN index THEN index[j] ELSE <<>>

\* token number i (from 0) of tokens has a span that covers line j
Covers(tokens, i, j) ==
  /\ i + 1 \in DOMAIN tokens
  /\ tokens[i + 1].map # <<>>
  /\ tokens[i + 1].map[1] <= j /\ j < tokens[i + 1].map[2]

\* the lines up to the largest span end of tokens
LinesOf(tokens) ==
  {j \in 0..(Len(tokens) + 8) :
     \E i \in DOMAIN tokens : tokens[i].map # <<>> /\ j <= tokens[i].map[2]}

\* index lists, for every line, the tokens whose span covers it, each once
\* and in the order of the tokens, and has no entry for any other line
IndexMatches(tokens, index) ==
  /\ \A j \in DOMAIN index \cup LinesOf(tokens) :
       LET entry == Entry(index, j)
       IN /\ Range(entry) = {i \in 0..(Len(tokens) - 1) : Covers(tokens, i, j)}
          /\ \A a \in DOMAIN entry, b \in DOMAIN entry : a < b => entry[a] < entry[b]
  /\ \A j \in DOMAIN index : index[j] # <<>>

\* C14: in every state each snapshot of the Document Cache has the line
\* index of its own tokens, whatever open, change and close events of
\* documents and notebooks led to the state.
C14_SnapshotConsistent ==
  \A uri \in DOMAIN cache.data :
    IndexMatches(cache.data[uri].tokens, cache.data[uri].lineToTokenIndex)

\* a document was re-parsed to a snapshot with a token, next to a snapshot
\* with other tokens
C14_Witness ==
  /\ lastEvent.op = "docChange"
  /\ DOMAIN getData(cache, lastEvent.uri).lineToTokenIndex # {}
  /\ \E uri \in DOMAIN cache.data :
       cache.data[uri].tokens # cache.data[lastEvent.uri].tokens

\* C15: in the line index built from the tokens of a parse, the entry of
\* line j has token position i if and only if token i has a span [s, e)
\* with s <= j < e; a token without a span is in no entry.
C15_LineIndex ==
  state.phase = "done" =>
    LET tokens == state.tokens
        index == state.lineToTokenIndex
        lines == 0..(state.lineMax + 1) \cup DOMAIN index
    IN /\ \A j \in lines, i \in 0..(Len(tokens) - 1) :
            (\E k \in DOMAIN Entry(index, j) : Entry(index, j)[k] = i)
              <=> ( /\ tokens[i + 1].map # <<>>
                    /\ tokens[i + 1].map[1] <= j
                    /\ j < tokens[i + 1].map[2] )
       /\ \A j \in lines :
            \A k \in DOMAIN Entry(index, j) :
              /\ Entry(index, j)[k] \in 0..(Len(tokens) - 1)
              /\ tokens[Entry(index, j)[k] + 1].map # <<>>

\* the index of a parse with a token that spans several lines, a token
\* without span, a line with several tokens and a line with none
C15_Witness ==
  /\ state.phase = "done"
  /\ \E i \in DOMAIN state.tokens :
       state.tokens[i].map # <<>> /\ state.tokens[i].map[2] > state.tokens[i].map[1] + 1
  /\ \E i \in DOMAIN state.tokens : state.tokens[i].map = <<>>
  /\ \E j \in DOMAIN state.lineToTokenIndex : Len(state.lineToTokenIndex[j]) >= 2
  /\ \E j \in 0..(state.lineMax - 1) : j \notin DOMAIN state.lineToTokenIndex

-----------------------------------------------------------------------------
(* Fenced divs *)

\* line j of the source
SrcLine(st, j) == SubSeq(st.src, At(st.bMarks, j) + 1, At(st.eMarks, j))

\* the length of the run of colons that l starts with after its indentation
ColonRun(l) ==
  LET rest == SubSeq(l, LeadingSpaces(l) + 1, Len(l))
  IN CHOOSE m \in 0..Len(rest) :
       /\ \A k \in 1..m : rest[k] = ":"
       /\ m = Len(rest) \/ rest[m + 1] # ":"

\* l is a closing line for a div opened with N colons: indented less than
\* four, a run of at least N colons, and only spaces after the run
ClosesDiv(l, N) ==
  /\ LeadingSpaces(l) < 4
  /\ ColonRun(l) >= N
  /\ \A k \in (LeadingSpaces(l) + ColonRun(l) + 1)..Len(l) : l[k] = " "

\* how many divs are open after token k
DivDepth(tokens, k) ==
  Cardinality({i \in 1..k : tokens[i].type = "div_open"})
    - Cardinality({i \in 1..k : tokens[i].type = "div_close"})

\* the div_close tokens that match the div_open token i: after it, at its depth
DivCloses(tokens, i) ==
  {c \in (i + 1)..Len(tokens) :
     /\ tokens[c].type = "div_close"
     /\ DivDepth(tokens, c) = DivDepth(tokens, i) - 1
     /\ \A k \in i..(c - 1) : DivDepth(tokens, k) >= DivDepth(tokens, i)}

\* the div_open tokens token i is nested in
DivsAround(tokens, i) ==
  {k \in 1..(i - 1) :
     /\ tokens[k].type = "div_open"
     /\ \A j \in k..(i - 1) : DivDepth(tokens, j) >= DivDepth(tokens, k)}

\* the end of the block that encloses token i: the end of the span of the
\* innermost div around it, or the end of the document
ScopeEnd(st, i) ==
  LET around == DivsAround(st.tokens, i)
  IN IF around = {} THEN st.lineMax
     ELSE st.tokens[CHOOSE k \in around : \A j \in around : j <= k].map[2]

\* the lines after the opening line of div_open token i, inside the
\* enclosing block, that close a div of its number of colons
ClosingLines(st, i) ==
  {j \in (st.tokens[i].map[1] + 1)..(ScopeEnd(st, i) - 1) :
     ClosesDiv(SrcLine(st, j), Len(st.tokens[i].markup))}

\* C16: a div opened with N colons is closed at the first later line of the
\* enclosing block that is indented less than four and has a run of M >= N
\* colons followed only by whitespace: the span of the div ends at that
\* line, which no nested token and no later token covers. A line with
\* fewer colons, with text after the colons, or indented by four or more,
\* does not close it.
C16_DivClosesAtFirstFence ==
  state.phase = "done" =>
    \A i \in DOMAIN state.tokens :
      (state.tokens[i].type = "div_open" /\ ClosingLines(state, i) # {}) =>
        LET e == state.tokens[i].map[2]
        IN /\ e \in ClosingLines(state, i)
           /\ \A j \in ClosingLines(state, i) : e <= j
           /\ \A k \in DOMAIN state.tokens :
                ( /\ state.tokens[k].map # <<>>
                  /\ state.tokens[k].map[1] <= e
                  /\ e < state.tokens[k].map[2] )
                => k \in DivsAround(state.tokens, i)

\* a div of four colons whose second line has a run of three colons and
\* whose third line closes it
C16_Witness ==
  /\ state.phase = "done"
  /\ \E i \in DOMAIN state.tokens :
       /\ state.tokens[i].type = "div_open"
       /\ ClosingLines(state, i) # {}
       /\ \E j \in (state.tokens[i].map[1] + 1)..(state.tokens[i].map[2] - 1) :
            /\ ColonRun(SrcLine(state, j)) >= 3
            /\ ColonRun(SrcLine(state, j)) < Len(state.tokens[i].markup)

\* the tokens of the paragraph "foo" at line 3
FooTokens ==
  << [Token("paragraph_open", 1) EXCEPT !.map = <<3, 4>>],
     [Token("inline", 0) EXCEPT !.map = <<3, 4>>, !.content = FooLine],
     Token("paragraph_close", -1) >>

TitleHi == [type |-> "mapping", value |-> (<<"t", "i", "t", "l", "e">> :> <<"h", "i">>)]

\* C17, as the specification states it: the parse of
\* ":::{note}\ntitle: hi\n:::\nfoo\n" has a div_open token with
\* meta.options = {title: "hi"} and span [0, 3), and the paragraph of "foo"
\* follows the div_close token.
C17_TitleExample ==
  (state.phase = "done" /\ state.src = JoinLines(TitleExample)) =>
    /\ state.tokens[1].type = "div_open"
    /\ "options" \in DOMAIN state.tokens[1].meta
    /\ state.tokens[1].meta.options = TitleHi
    /\ state.tokens[1].map = <<0, 3>>
    /\ \E c \in DivCloses(state.tokens, 1) :
         SubSeq(state.tokens, c + 1, Len(state.tokens)) = FooTokens

\* C17, amended: the parse of ":::{note}\n:title: hi\n:::\nfoo\n", whose
\* option line starts with a colon, has a div_open token with
\* meta.options = {title: "hi"} and span [0, 2) (the closing line is not in
\* the span), directly followed by its div_close token and then by the
\* paragraph of "foo" (line 3). In the parse of
\* ":::{note}\ntitle: hi\n:::\nfoo\n" the div_open token has span [0, 2)
\* and no meta, "title: hi" is a paragraph inside the div, and the paragraph
\* of "foo" follows the div_close token.
C17_OptionExample ==
  /\ (state.phase = "done" /\ state.src = JoinLines(OptionExample)) =>
       /\ state.tokens[1].type = "div_open"
       /\ state.tokens[1].map = <<0, 2>>
       /\ DOMAIN state.tokens[1].meta = {"optMap", "options"}
       /\ state.tokens[1].meta.options = TitleHi
       /\ state.tokens[2].type = "div_close"
       /\ SubSeq(state.tokens, 3, Len(state.tokens)) = FooTokens
  /\ (state.phase = "done" /\ state.src = JoinLines(TitleExample)) =>
       /\ state.tokens[1].type = "div_open"
       /\ state.tokens[1].map = <<0, 2>>
       /\ state.tokens[1].meta = NoMeta
       /\ state.tokens[2].type = "paragraph_open" /\ state.tokens[2].map = <<1, 2>>
       /\ state.tokens[5].type = "div_close"
       /\ SubSeq(state.tokens, 6, Len(state.tokens)) = FooTokens

\* the parse of ":::{note}\n:title: hi\n:::\nfoo\n" is done
C17_Witness ==
  /\ state.phase = "done"
  /\ state.src = JoinLines(OptionExample)
  /\ lastEvent.op = "index"

\* C18: a div for which no line of the enclosing block is a closing line is
\* accepted all the same: it has one div_open and one matching div_close
\* token, the span of the div_open ends at the end of the enclosing block,
\* and no later token starts before that end; after the turn of the div rule
\* at the top level the tokenizer is at the end of the document.
C18_UnclosedDiv ==
  /\ \A i \in DOMAIN state.tokens :
       (state.tokens[i].type = "div_open" /\ ClosingLines(state, i) = {}) =>
         /\ state.tokens[i].map[2] = ScopeEnd(state, i)
         /\ Cardinality(DivCloses(state.tokens, i)) = 1
         /\ \A c \in DivCloses(state.tokens, i) :
              \A k \in (c + 1)..Len(state.tokens) :
                state.tokens[k].map # <<>> =>
                  state.tokens[k].map[1] >= ScopeEnd(state, i)
  /\ lastEvent.op = "div" =>
       LET top == {i \in DOMAIN state.tokens :
                     /\ state.tokens[i].type = "div_open"
                     /\ state.tokens[i].map[1] \in lastEvent.cells
                     /\ DivsAround(state.tokens, i) = {}}
       IN /\ top # {}
          /\ \A i \in top :
               ClosingLines(state, i) = {} =>
                 /\ state.line = state.lineMax
                 /\ Len(state.tokens) \in DivCloses(state.tokens, i)

\* a div without closing line inside a div that a line closes
C18_Witness ==
  /\ state.phase = "done"
  /\ \E i \in DOMAIN state.tokens :
       /\ state.tokens[i].type = "div_open"
       /\ ClosingLines(state, i) = {}
       /\ \E k \in DivsAround(state.tokens, i) : ClosingLines(state, k) # {}
       /\ ScopeEnd(state, i) < state.lineMax

\* the option lines of div_open token i, without their first character
OptionLines(st, i) ==
  LET optMap == st.tokens[i].meta.optMap
  IN [k \in 1..(optMap[2] - optMap[1] + 1) |->
        Tail(TrimLeft(SrcLine(st, optMap[1] + k - 1)))]

\* C19: when the option block of a div does not decode, or decodes to a
\* value that is not a mapping (a sequence, a scalar, null, nothing), the
\* meta of the div_open token has an optError and no options, and the lines
\* after the option block are tokenized inside the div.
C19_OptionErrors ==
  state.phase = "done" =>
    \A i \in DOMAIN state.tokens :
      ( /\ state.tokens[i].type = "div_open"
        /\ "optMap" \in DOMAIN state.tokens[i].meta
        /\ yamlLoad(OptionLines(state, i)).type # "mapping" )
      => /\ "optError" \in DOMAIN state.tokens[i].meta
         /\ "options" \notin DOMAIN state.tokens[i].meta
         /\ \A j \in (state.tokens[i].meta.optMap[2] + 1)..(state.tokens[i].map[2] - 1) :
              ~isEmpty(state, j) =>
                \E k \in (i + 1)..Len(state.tokens) :
                  /\ i \in DivsAround(state.tokens, k)
                  /\ state.tokens[k].map # <<>>
                  /\ state.tokens[k].map[1] <= j /\ j < state.tokens[k].map[2]

\* how deep token k is nested: the opening tokens up to it that are not closed
Level(tokens, k) ==
  Cardinality({i \in 1..k : tokens[i].nesting = 1})
    - Cardinality({i \in 1..k : tokens[i].nesting = -1})

\* the closing tokens that match the opening token i
Closers(tokens, i) ==
  {c \in (i + 1)..Len(tokens) :
     /\ tokens[c].nesting = -1
     /\ Level(tokens, c) = Level(tokens, i) - 1
     /\ \A k \in i..(c - 1) : Level(tokens, k) >= Level(tokens, i)}

\* C20: in the token sequence of a parse, after every turn of the tokenizer,
\* each div_open token has exactly one matching closing token later in the
\* sequence, which is a div_close token; no token closes what was not
\* opened, and nothing is left open; every div_open span [s, e) has s < e.
C20_DivTokensPaired ==
  /\ \A i \in DOMAIN state.tokens :
       state.tokens[i].type = "div_open" =>
         /\ Cardinality(Closers(state.tokens, i)) = 1
         /\ \A c \in Closers(state.tokens, i) : state.tokens[c].type = "div_close"
         /\ state.tokens[i].map[1] < state.tokens[i].map[2]
  /\ \A c \in DOMAIN state.tokens :
       state.tokens[c].type = "div_close" =>
         \E i \in 1..(c - 1) :
           state.tokens[i].type = "div_open" /\ c \in Closers(state.tokens, i)
  /\ \A k \in DOMAIN state.tokens : Level(state.tokens, k) >= 0
  /\ Level(state.tokens, Len(state.tokens)) = 0

\* a div in a div, with a paragraph inside and a paragraph after
C20_Witness ==
  /\ state.phase = "done"
  /\ \E i \in DOMAIN state.tokens, k \in DOMAIN state.tokens :
       /\ i < k
       /\ state.tokens[i].type = "div_open" /\ state.tokens[k].type = "div_open"
       /\ \E c \in Closers(state.tokens, i) : k < c
       /\ \E p \in DOMAIN state.tokens :
            /\ state.tokens[p].type = "paragraph_open"
            /\ i \in DivsAround(state.tokens, p)

-----------------------------------------------------------------------------
(* The MyST block rules at the top level of a document *)

\* a line without its indentation
Unindented(l) == SubSeq(l, LeadingSpaces(l) + 1, Len(l))

\* u is "(", n label characters, ")=" and then white space only
IsTargetOf(u, n) ==
  /\ Len(u) >= n + 3
  /\ u[1] = "("
  /\ \A i \in 2..(n + 1) : u[i] \in LabelChars
  /\ u[n + 2] = ")"
  /\ u[n + 3] = "="
  /\ \A i \in (n + 4)..Len(u) : u[i] \in Whitespace

\* a step that is one turn of the tokenizer at the top level, and the line
\* the turn started at
IsTurn == state.phase = "block" /\ state'.phase = "block" /\ lastEvent'.cells # {}
TurnLine == CHOOSE l \in lastEvent'.cells : TRUE

\* the turn added exactly the token t, and went on to line next, or to the
\* line after it when line next is empty
TurnPushed(t, next) ==
  /\ state'.tokens = Append(state.tokens, t)
  /\ \/ state'.line = next
     \/ /\ state'.line = next + 1
        /\ next < state.lineMax
        /\ SrcLine(state, next) = <<>>

\* C21: a turn of the tokenizer at a line is a turn of the target rule if
\* and only if the line is indented by less than four and is "(label)=" with
\* nothing but white space after it, the label having 1 to 100 characters of
\* the label class; the turn then adds one myst_target token whose content
\* is the label and whose span is that one line, and consumes that line only.
C21_TargetRule ==
  [][IsTurn =>
       LET l == SrcLine(state, TurnLine)
           u == Unindented(l)
           labels == {n \in 1..100 : IsTargetOf(u, n)}
       IN /\ (lastEvent'.op = "myst_target") <=> (LeadingSpaces(l) < 4 /\ labels # {})
          /\ lastEvent'.op = "myst_target" =>
               \E n \in labels :
                 TurnPushed([Token("myst_target", 0) EXCEPT
                               !.content = SubSeq(u, 2, n + 1),
                               !.map = <<TurnLine, TurnLine + 1>>],
                            TurnLine + 1)]_vars

\* a target with a label of 100 characters was accepted
C21_Witness ==
  /\ lastEvent.op = "myst_target"
  /\ state.tokens # <<>>
  /\ Len(state.tokens[Len(state.tokens)].content) = 100

\* l starts, after its indentation, with "%"
IsCommentLine(l) == Unindented(l) # <<>> /\ Unindented(l)[1] = "%"

\* x without the white space at its end
RightTrimmed(x) ==
  LET m == CHOOSE k \in 0..Len(x) :
             /\ k = 0 \/ x[k] \notin Whitespace
             /\ \A j \in (k + 1)..Len(x) : x[j] \in Whitespace
  IN SubSeq(x, 1, m)

\* C22: a turn at a line that starts with "%" and is indented by less than
\* four is a turn of the line comment rule. It adds one token whose span
\* goes from that line to the first line after it that does not start with
\* "%" (after its indentation), or to the end of the document, and whose
\* content is the text after the "%" of each of these lines, without the
\* white space at its end, joined by line feeds; parsing goes on at the
\* line where the span ends.
C22_LineComment ==
  [][IsTurn =>
       LET l == SrcLine(state, TurnLine)
           after == {j \in (TurnLine + 1)..state.lineMax :
                       j = state.lineMax \/ ~IsCommentLine(SrcLine(state, j))}
           end == CHOOSE j \in after : \A k \in after : j <= k
           texts == [i \in 1..(end - TurnLine) |->
                       RightTrimmed(Tail(Unindented(SrcLine(state, TurnLine + i - 1))))]
       IN /\ (lastEvent'.op = "myst_line_comment") <=> (LeadingSpaces(l) < 4 /\ IsCommentLine(l))
          /\ lastEvent'.op = "myst_line_comment" =>
               TurnPushed([Token("myst_line_comment", 0) EXCEPT
                             !.content = JoinNL(texts),
                             !.markup = <<"%">>,
                             !.map = <<TurnLine, end>>],
                          end)]_vars

\* a comment of two lines or more, with white space at the end of a line,
\* that ends before the end of the document
C22_Witness ==
  /\ lastEvent.op = "myst_line_comment"
  /\ state.tokens # <<>>
  /\ LET t == state.tokens[Len(state.tokens)]
     IN /\ t.map[2] >= t.map[1] + 2
        /\ t.map[2] < state.lineMax
        /\ \E j \in t.map[1]..(t.map[2] - 1) :
             LET x == SrcLine(state, j) IN x # <<>> /\ x[Len(x)] = " "

\* the length of the run of "+" and spaces that u starts with
PlusRun(u) ==
  CHOOSE m \in 0..Len(u) :
    /\ \A k \in 1..m : u[k] \in {"+", " "}
    /\ m = Len(u) \/ u[m + 1] \notin {"+", " "}

\* C23: a turn at a line is a turn of the block break rule if and only if
\* the line is indented by less than four, starts with "+", and the run of
\* "+" and spaces it starts with has three "+" or more; the turn then adds
\* one token whose span is that one line and whose content is the text after
\* the run, trimmed, and consumes that line only.
C23_BlockBreak ==
  [][IsTurn =>
       LET l == SrcLine(state, TurnLine)
           u == Unindented(l)
           markers == Cardinality({k \in 1..PlusRun(u) : u[k] = "+"})
       IN /\ (lastEvent'.op = "myst_block_break")
               <=> (LeadingSpaces(l) < 4 /\ u # <<>> /\ u[1] = "+" /\ markers >= 3)
          /\ lastEvent'.op = "myst_block_break" =>
               TurnPushed([Token("myst_block_break", 0) EXCEPT
                             !.content = Trim(SubSeq(u, PlusRun(u) + 1, Len(u))),
                             !.markup = [i \in 1..markers |-> "+"],
                             !.map = <<TurnLine, TurnLine + 1>>],
                          TurnLine + 1)]_vars

\* a block break with spaces among its markers and with text after them
C23_Witness ==
  /\ lastEvent.op = "myst_block_break"
  /\ state.tokens # <<>>
  /\ LET t == state.tokens[Len(state.tokens)]
     IN /\ t.content # <<>>
        /\ \E k \in 1..PlusRun(SrcLine(state, t.map[1])) : SrcLine(state, t.map[1])[k] = " "

-----------------------------------------------------------------------------
(* The definition rule at the top level of a document *)

\* the lines from L on that the definition rule reads, as one string, and
\* what the helpers find in it: the label, the destination, the title and
\* the first position after the title that has no space
Candidate(st, L) ==
  With(Trim(JoinNL(getLines(st, L, ParagraphEnd(st, L + 1, st.lineMax), st.blkIndent))),
       LAMBDA str :
  With(LabelScan(str, 1, Len(str), 0), LAMBDA label :
  With(SkipWhite(str, label.labelEnd + 2, Len(str), label.lines), LAMBDA white :
  With(parseLinkDestination(str, white.pos, Len(str)), LAMBDA dest :
  With(SkipWhite(str, dest.pos, Len(str), 0), LAMBDA gap :
  With(parseLinkTitle(str, gap.pos, Len(str)), LAMBDA title :
    [str |-> str,
     label |-> label,
     key |-> normalizeReferenceStr(Slice(str, 1, label.labelEnd)),
     destLines |-> white.lines + dest.lines,
     dest |-> dest,
     gap |-> gap,
     title |-> title,
     rest |-> SkipLineSpaces(str, title.pos, Len(str))]))))))

\* line L of st starts a definition with a label, a colon, a valid
\* destination and, after white space, a title
HasTitle(st, L) ==
  LET l == SrcLine(st, L)
      c == Candidate(st, L)
  IN /\ LeadingSpaces(l) < 4
     /\ Unindented(l) # <<>> /\ Unindented(l)[1] = "["
     /\ c.label.ok /\ c.label.labelEnd # null
     /\ CharAt(c.str, c.label.labelEnd + 1) = ":"
     /\ c.key # <<>>
     /\ c.dest.ok /\ validateLink(normalizeLink(c.dest.str))
     /\ c.gap.pos > c.dest.pos
     /\ c.title.ok

\* something other than spaces follows the title on its line
TextAfterTitle(st, L) ==
  LET c == Candidate(st, L)
  IN c.rest < Len(c.str) /\ CharAt(c.str, c.rest) # "\n"

\* the turn added a definition token without title for the candidate at
\* TurnLine: its span and the next line are those of a definition that ends
\* with the destination
AcceptedWithoutTitle ==
  LET c == Candidate(state, TurnLine)
  IN /\ lastEvent'.op = "reference"
     /\ state'.tokens =
          Append(state.tokens,
                 [Token("definition", 0) EXCEPT
                    !.map = <<TurnLine, TurnLine + c.destLines>>,
                    !.meta = [title |-> <<>>, href |-> normalizeLink(c.dest.str),
                              raw |-> Slice(c.str, 1, c.label.labelEnd),
                              key |-> c.key]])
     /\ state'.line = TurnLine + c.destLines + 1

\* C24 as stated: whenever something other than white space follows a
\* title, the definition is accepted without title.
C24_TitleDiscarded ==
  [][(IsTurn /\ HasTitle(state, TurnLine) /\ TextAfterTitle(state, TurnLine))
       => AcceptedWithoutTitle]_vars

\* C24: when something other than white space follows the title on its
\* line, the definition is accepted without title, ending after the
\* destination, if the title is not empty and starts on a later line than
\* the one the destination ends on; if the title is on the line of the
\* destination, or is empty, the rule declines and adds no definition.
C24_TitleRollback ==
  [][(IsTurn /\ HasTitle(state, TurnLine) /\ TextAfterTitle(state, TurnLine))
       => LET c == Candidate(state, TurnLine)
          IN IF c.gap.lines > 0 /\ c.title.str # <<>>
             THEN AcceptedWithoutTitle
             ELSE /\ lastEvent'.op = "paragraph"
                  /\ state'.env = state.env
                  /\ \A i \in DOMAIN state'.tokens :
                       i > Len(state.tokens) => state'.tokens[i].type # "definition"]_vars

\* a definition was accepted without the title that the next line starts
\* with, because of the text after that title
C24_Witness ==
  /\ lastEvent.op = "reference"
  /\ state.tokens # <<>>
  /\ LET t == state.tokens[Len(state.tokens)]
     IN /\ t.type = "definition"
        /\ t.meta.title = <<>>
        /\ HasTitle(state, t.map[1])
        /\ TextAfterTitle(state, t.map[1])
        /\ state.line = t.map[2] + 1

\* the reasons for which the definition rule declines at line L, which is
\* indented by less than four: no "[" at its start; no "]" that ends the
\* label, or no colon after it; no destination, or one that is not a valid
\* link; something after the destination on its line that is no title, or
\* something after a title that is on the line of the destination or is
\* empty; a label that is empty once normalized
Declines(st, L) ==
  LET u == Unindented(SrcLine(st, L))
      c == Candidate(st, L)
      max == Len(c.str)
      hasTitle == c.gap.pos < max /\ c.gap.pos # c.dest.pos /\ c.title.ok
      afterDest == SkipLineSpaces(c.str, c.dest.pos, max)
  IN /\ LeadingSpaces(SrcLine(st, L)) < 4
     /\ \/ u = <<>> \/ u[1] # "["
        \/ ~c.label.ok \/ c.label.labelEnd = null
        \/ CharAt(c.str, c.label.labelEnd + 1) # ":"
        \/ ~c.dest.ok \/ ~validateLink(normalizeLink(c.dest.str))
        \/ ~hasTitle /\ afterDest < max /\ CharAt(c.str, afterDest) # "\n"
        \/ /\ hasTitle /\ c.rest < max /\ CharAt(c.str, c.rest) # "\n"
           /\ c.gap.lines = 0 \/ c.title.str = <<>>
        \/ c.key = <<>>

\* C25: a turn of the tokenizer at a line at which the definition rule
\* declines is a turn of another rule, which starts its first token at that
\* line; it adds no definition token for that line, and unless it is a turn
\* of the div rule, which parses the lines of its body, it adds no definition
\* token at all and leaves the table of the definitions as it was.
C25_DeclineLeavesLines ==
  [][(IsTurn /\ Declines(state, TurnLine))
       => /\ lastEvent'.op # "reference"
          /\ Len(state'.tokens) > Len(state.tokens)
          /\ SubSeq(state'.tokens, 1, Len(state.tokens)) = state.tokens
          /\ state'.tokens[Len(state.tokens) + 1].map[1] = TurnLine
          /\ \A i \in DOMAIN state'.tokens :
               (i > Len(state.tokens) /\ state'.tokens[i].type = "definition")
                 => lastEvent'.op = "div" /\ state'.tokens[i].map[1] > TurnLine
          /\ lastEvent'.op # "div" => state'.env = state.env]_vars

\* a line that starts with "[" and at which the definition rule declined has
\* become a paragraph, and no definition is in the table
C25_Witness ==
  /\ lastEvent.op = "paragraph"
  /\ state.phase = "block"
  /\ state.env.references = <<>>
  /\ \E L \in lastEvent.cells :
       /\ Unindented(SrcLine(state, L))[1] = "["
       /\ Declines(state, L)
       /\ \E i \in DOMAIN state.tokens :
            state.tokens[i].type = "paragraph_open" /\ state.tokens[i].map[1] = L

\* the definition tokens of a token sequence, by place
DefinitionsAt(tokens) == {i \in DOMAIN tokens : tokens[i].type = "definition"}

\* the table has one entry for each key of a definition token, with the href
\* and the title of the first definition token of that key
FirstDefinitionWins(st) ==
  LET defs == DefinitionsAt(st.tokens)
      refs == st.env.references
  IN /\ \A i \in defs :
          /\ st.tokens[i].meta.key = normalizeReferenceStr(st.tokens[i].meta.raw)
          /\ \E r \in DOMAIN refs : refs[r].key = st.tokens[i].meta.key
     /\ \A r \in DOMAIN refs :
          /\ \A q \in DOMAIN refs : refs[q].key = refs[r].key => q = r
          /\ \E i \in defs :
               /\ st.tokens[i].meta.key = refs[r].key
               /\ \A j \in defs : st.tokens[j].meta.key = refs[r].key => i <= j
               /\ refs[r].href = st.tokens[i].meta.href
               /\ refs[r].title = st.tokens[i].meta.title

\* C26: at every point of the parse the table of the definitions holds, for
\* each key, the href and the title of the first definition of that key; and
\* a turn at a line where the definition rule does not decline adds one
\* definition token with the normalized key, whether the key is in the table
\* or not.
C26_FirstDefinitionWins ==
  [][/\ state'.phase \in {"block", "done"} => FirstDefinitionWins(state')
     /\ (IsTurn /\ ~Declines(state, TurnLine)
           /\ LeadingSpaces(SrcLine(state, TurnLine)) < 4)
          => /\ lastEvent'.op = "reference"
             /\ Len(state'.tokens) = Len(state.tokens) + 1
             /\ state'.tokens[Len(state'.tokens)].type = "definition"
             /\ state'.tokens[Len(state'.tokens)].meta.key
                  = Candidate(state, TurnLine).key]_vars

\* a key was defined a second time, with another href, and the table has
\* the href of the first definition
C26_Witness ==
  /\ lastEvent.op = "reference"
  /\ \E i, j \in DefinitionsAt(state.tokens) :
       /\ i < j
       /\ j = Len(state.tokens)
       /\ state.tokens[i].meta.key = state.tokens[j].meta.key
       /\ state.tokens[i].meta.href # state.tokens[j].meta.href
       /\ \E r \in DOMAIN state.env.references :
            /\ state.env.references[r].key = state.tokens[i].meta.key
            /\ state.env.references[r].href = state.tokens[i].meta.href

-----------------------------------------------------------------------------
(* The custom rules called as terminators *)

\* A rule that ends paragraphs is also called by the block rules that look
\* for the end of their block, with silent = true, at the line they are at,
\* whatever its indent; the rules before it in the chain are not asked first.

MaxIndent == 5

CustomRules == {"myst_line_comment", "myst_block_break", "myst_target", "div", "reference"}

\* the lines the rules are called at: the start of each construct, and a
\* line of text, behind up to MaxIndent spaces
TerminatorLines ==
  { [i \in 1..n |-> " "] \o c :
      n \in 0..MaxIndent,
      c \in { <<":", ":", ":">>, <<"%", " ", "c">>, <<"+", "+", "+">>,
              <<"(", "a", ")", "=">>, <<"[", "k", "]", ":", " ", "/", "x">>,
              <<"f">> } }

TerminatorSources == {<<l>> : l \in TerminatorLines} \cup {<<<<"f">>, l>> : l \in TerminatorLines}

\* rule(state, line, endLine, true)
CallRule(rule, st, L) ==
  CASE rule = "myst_line_comment" -> parse_line_comment(st, L, st.lineMax, TRUE)
    [] rule = "myst_block_break" -> parse_block_break(st, L, st.lineMax, TRUE)
    [] rule = "myst_target" -> parse_target(st, L, st.lineMax, TRUE)
    [] rule = "div" -> parseDiv(st, L, st.lineMax, TRUE)
    [] rule = "reference" -> reference(st, L, st.lineMax, TRUE)

\* a call of a custom rule in validation mode at a line of the document;
\* lastEvent.cells has the line, and lastEvent.had has it too when the rule
\* returned true
TerminatorCall(rule, L) ==
  /\ state.phase = "block"
  /\ L \in 0..(state.lineMax - 1)
  /\ LET r == CallRule(rule, state, L)
     IN /\ state' = r.st
        /\ lastEvent' = [Event(rule, "", {L}) EXCEPT !.had = IF r.ok THEN {L} ELSE {}]
  /\ UNCHANGED <<settings, pending, cache, db, documents, notebooks>>

NextTerminator ==
  \/ \E lines \in TerminatorSources : MdParse(lines)
  \/ \E rule \in CustomRules, L \in 0..1 : TerminatorCall(rule, L)

SpecTerminator == Init /\ [][NextTerminator]_vars

\* C27 as stated: a custom rule that is called at a line indented by four
\* or more columns beyond the block indent returns false.
C27_IndentedDeclines ==
  (lastEvent.op \in CustomRules
     /\ \E L \in lastEvent.cells : At(state.sCount, L) - state.blkIndent >= 4)
    => lastEvent.had = {}

-----------------------------------------------------------------------------
(* The analysis of a document and the state of the server *)

\* the records of the Project Target Index coll for a URI
RecordsIn(coll, uri) == SelectSeq(coll, LAMBDA r : r.uri = uri)

\* the analysis of the text by a server that has analysed nothing before
FirstAnalysis(uri, text) == analyseTextDocument([cache |-> NewDocCache, db |-> <<>>], uri, text)

-----------------------------------------------------------------------------
(* Project scans that overlap *)

\* C29: when a call of analyzeProject comes to its end, whatever calls
\* started or ended while it was waiting, the Project Target Index holds
\* the targets that the files it read declare, each once, and no other
\* record: nothing that an earlier call inserted is left.
C29_LastScanWins ==
  [][lastEvent'.op = "scanFinish" =>
       /\ Range(db') = lastEvent'.cells
       /\ Len(db') = Cardinality(lastEvent'.cells)
       /\ cache' = cache]_vars

\* two calls have ended, the second of them was made while the first was
\* waiting, and a URI of which the index had records when the last one
\* ended has none now, while the index is not empty
C29_Witness ==
  /\ lastEvent.op = "scanFinish"
  /\ \A i \in DOMAIN pending.scans : pending.scans[i].stage = "done"
  /\ \E i, j \in DOMAIN pending.scans : i \in pending.scans[j].during
  /\ db # <<>>
  /\ \E uri \in lastEvent.had : \A k \in DOMAIN db : db[k].uri # uri

-----------------------------------------------------------------------------
(* The server whose parse awaits the settings *)

\* C30 as stated: a document that is closed and has no snapshot gets none
\* as long as it is not opened again, whatever parse of it was waiting for
\* its settings when it was closed.
C30_CloseNotUndone ==
  [][\A uri \in Docs :
       (uri \notin documents /\ uri \notin documents'
          /\ getData(cache, uri) = undefined)
         => getData(cache', uri) = undefined]_vars

-----------------------------------------------------------------------------
(* The option block and the body of a div *)

\* a line indented by at most three that starts with one colon
IsOptionLine(l) ==
  /\ LeadingSpaces(l) <= 3
  /\ Unindented(l) # <<>>
  /\ Unindented(l)[1] = ":"
  /\ Len(Unindented(l)) >= 2 => Unindented(l)[2] # ":"

\* how many lines after line s, one after the other, are option lines
OptionRun(st, s) ==
  Cardinality({n \in 1..(st.lineMax - s - 1) :
                 \A k \in 1..n : IsOptionLine(SrcLine(st, s + k))})

\* the tokens nested in the div_open token i that have a span
NestedSpanned(tokens, i) ==
  {k \in (i + 1)..Len(tokens) : i \in DivsAround(tokens, k) /\ tokens[k].map # <<>>}

\* C31: the option block of a div is the longest run of option lines (lines
\* indented by at most three that start with one colon, not two) right
\* after the opening line: the div_open token has an optMap if and only if
\* the run is not empty, and the optMap is the run; an option line after a
\* line that is none is not in it. The tokens of the body start after the
\* run, and the first line after the run that is not empty, if the div has
\* one, starts a token of the body.
C31_OptionBlock ==
  state.phase = "done" =>
    \A i \in DOMAIN state.tokens :
      state.tokens[i].type = "div_open" =>
        LET s == state.tokens[i].map[1]
            e == state.tokens[i].map[2]
            run == OptionRun(state, s)
            body == {j \in (s + run + 1)..(e - 1) : ~isEmpty(state, j)}
        IN /\ "optMap" \in DOMAIN state.tokens[i].meta <=> run > 0
           /\ run > 0 => state.tokens[i].meta.optMap = <<s + 1, s + run>>
           /\ s + run < e
           /\ \A k \in NestedSpanned(state.tokens, i) :
                state.tokens[k].map[1] > s + run
           /\ body # {} =>
                \E k \in NestedSpanned(state.tokens, i) :
                  \A j \in body : state.tokens[k].map[1] <= j

\* a div has an option block, and a later line of its body is an option
\* line too, after a line that is none
C31_Witness ==
  /\ state.phase = "done"
  /\ \E i \in DOMAIN state.tokens :
       /\ state.tokens[i].type = "div_open"
       /\ "optMap" \in DOMAIN state.tokens[i].meta
       /\ \E j \in (state.tokens[i].meta.optMap[2] + 2)..(state.tokens[i].map[2] - 1) :
            IsOptionLine(SrcLine(state, j))

\* C32: every token between a div_open with the span [s, e) and its
\* div_close that has a span has it within [s + 1, e): the tokens of the
\* body cover neither the opening line nor the line of the closing fence
\* nor a later line.
C32_BodyWithinDiv ==
  state.phase = "done" =>
    \A i \in DOMAIN state.tokens :
      state.tokens[i].type = "div_open" =>
        \A k \in NestedSpanned(state.tokens, i) :
          /\ state.tokens[i].map[1] + 1 <= state.tokens[k].map[1]
          /\ state.tokens[k].map[1] <= state.tokens[k].map[2]
          /\ state.tokens[k].map[2] <= state.tokens[i].map[2]

\* a div closed by a fence has a token in its body, and the source has a
\* line after the fence
C32_Witness ==
  /\ state.phase = "done"
  /\ \E i \in DOMAIN state.tokens :
       /\ state.tokens[i].type = "div_open"
       /\ NestedSpanned(state.tokens, i) # {}
       /\ state.tokens[i].map[2] + 1 < state.lineMax
       /\ ClosesDiv(SrcLine(state, state.tokens[i].map[2]), 3)

-----------------------------------------------------------------------------
(* The index and the snapshots of the open documents *)

\* C33 (as stated; violated): in every state, for each URI with a snapshot
\* in the Document Cache, the records the Project Target Index holds for
\* the URI are the myst-target tokens of the snapshot that have a span, in
\* order, with the same names and start lines; also after a project scan
\* that ran while the document was open with a text that is not the text
\* of the file on disk.
C33_IndexMatchesSnapshots ==
  \A uri \in DOMAIN cache.data :
    LET spanned == SpannedTargets(cache.data[uri].tokens)
        records == RecordsOf(uri)
    IN /\ Len(records) = Len(spanned)
       /\ \A i \in DOMAIN records :
            records[i] = [name |-> spanned[i].content, uri |-> uri,
                          line |-> spanned[i].map[1]]

-----------------------------------------------------------------------------
(* The body of a div, tokenized turn by turn *)

MaxBodyLines == 2
MaxDepth == 2

\* the lines of a body: a fence, a comment, a block break, a target, a
\* definition, a title, an empty line
BodyLines ==
  { <<":", ":", ":">>, <<"%", " ", "c">>, <<"+", "+", "+">>, <<"(", "a", ")", "=">>,
    <<"[", "k", "]", ":", " ", "/", "x">>, <<"'", "t", "'">>, <<>> }

Bodies == UNION {[1..n -> BodyLines] : n \in 0..MaxBodyLines}

\* the lines alone, in a div without closing fence, in a div with one, and
\* in a div with one that a line follows
BodySources ==
  Bodies \cup {<<FenceLine>> \o b : b \in Bodies}
         \cup {<<FenceLine>> \o b \o <<FenceLine>> : b \in Bodies}
         \cup {<<FenceLine>> \o b \o <<FenceLine, <<"'", "t", "'">>>> : b \in Bodies}

\* parseDiv up to its call of state.md.block.tokenize (part_005:58-166): the
\* opening token is pushed, the parser is in the body, and the frame keeps
\* the locals of the call
EnterDiv ==
  /\ AtBlock
  /\ TopRule = "div"
  /\ Len(state.frames) < MaxDepth
  /\ LET st == state
         startLine == TopLine
         start == At(st.bMarks, startLine) + At(st.tShift, startLine)
         max == At(st.eMarks, startLine)
         pos == MarkerRunEnd(st, start + 1, max)
         found == DivScan(st, startLine, st.lineMax, start, pos, TRUE, null, pos - start)
         nextLine == found.nextLine
         open == [Token("div_open", 1) EXCEPT
                    !.markup = slice(st, start, pos),
                    !.info = slice(st, pos, max),
                    !.map = <<startLine, nextLine>>,
                    !.meta = IF found.optionsEndLine # null
                             THEN DivMeta(st, startLine, found.optionsEndLine)
                             ELSE NoMeta]
         contentStart == IF found.optionsEndLine # null
                         THEN found.optionsEndLine ELSE startLine
     IN state' = [st EXCEPT
                    !.parentType = "div",
                    !.lineMax = nextLine,
                    !.tokens = Append(@, open),
                    !.line = contentStart + 1,
                    !.frames = Append(@, [startLine |-> startLine,
                                          old_parent |-> st.parentType,
                                          old_line_max |-> st.lineMax,
                                          nextLine |-> nextLine,
                                          auto_closed |-> found.auto_closed,
                                          markup |-> slice(st, found.start, found.pos)])]
  /\ lastEvent' = Event("div_open", "", {TopLine})
  /\ UNCHANGED <<settings, pending, cache, db, documents, notebooks>>

\* the rest of parseDiv, when the loop of the body is left (part_005:168-176),
\* and the end of the turn of the loop that called parseDiv
LeaveDiv ==
  /\ state.phase = "block"
  /\ state.frames # <<>>
  /\ ~AtBlock
  /\ LET frame == state.frames[Len(state.frames)]
         st1 == [state EXCEPT
                   !.tokens = Append(@, [Token("div_close", -1) EXCEPT
                                           !.markup = frame.markup]),
                   !.parentType = frame.old_parent,
                   !.lineMax = frame.old_line_max,
                   !.line = frame.nextLine + (IF frame.auto_closed THEN 1 ELSE 0),
                   !.frames = SubSeq(@, 1, Len(@) - 1)]
     IN /\ state' = IF st1.line < st1.lineMax /\ isEmpty(st1, st1.line)
                    THEN [st1 EXCEPT !.line = @ + 1]
                    ELSE st1
        /\ lastEvent' = Event("div", "", {frame.startLine})
  /\ UNCHANGED <<settings, pending, cache, db, documents, notebooks>>

NextBody ==
  \/ \E lines \in BodySources : MdParse(lines)
  \/ EnterDiv
  \/ LeaveDiv
  \/ RuleDiv
  \/ RuleLineComment
  \/ RuleBlockBreak
  \/ RuleTarget
  \/ RuleReference
  \/ RuleParagraph
  \/ ParseEnd

SpecBody == Init /\ [][NextBody]_vars

\* the number of lines of the document
DocLines == Len(state.bMarks) - 1

\* the tokens of the document are those of the parse in one step
BodyStepsAgree ==
  state.phase = "done" =>
    state.tokens = tokenize([state EXCEPT !.line = 0, !.tokens = <<>>,
                                          !.parentType = "root", !.phase = "block",
                                          !.lineToTokenIndex = EmptyMap],
                            0, DocLines).tokens

\* what is left to the tokenizer: the lines after the line its loop is at,
\* and the calls of parseDiv that have to return
Remaining == (DocLines + 1) * (DocLines - state.line) + Len(state.frames)

\* C34: a custom rule (line comment, block break, target, div, definition)
\* that accepts at a line when it is not validating leaves the parser at a
\* later line, not after the end of the scope it was called in (the
\* document, or the body of a div); and the tokenizing of a document ends:
\* every step of the tokenizer (a turn of a loop, the entry into the body
\* of a div, the return from it) makes what is left to it smaller, and
\* what is left is never negative.
C34_RulesAdvance ==
  [][state.phase = "block"
       => /\ lastEvent'.op \in CustomRules
               => /\ TurnLine < state'.line
                  /\ state'.line <= state'.lineMax
                  /\ lastEvent'.op # "div" =>
                       LET r == tryRules([state EXCEPT !.line = TurnLine], TurnLine,
                                         state.lineMax).st
                       IN TurnLine < r.line /\ r.line <= state.lineMax
          /\ state'.phase = "block" => Remaining' < Remaining /\ Remaining' >= 0]_vars

\* a definition in the body of a div was accepted, and it ends where the
\* body ends, before the end of the document
C34_Witness ==
  /\ state.phase = "block"
  /\ lastEvent.op = "reference"
  /\ state.frames # <<>>
  /\ state.line = state.lineMax
  /\ state.lineMax < DocLines

-----------------------------------------------------------------------------
(* The custom rules in validation mode *)

\* C35: a call of a custom rule in validation (silent) mode, whether it
\* returns true or false, pushes no token, leaves the parser at its line,
\* and adds no definition to env.references.
C35_SilentKeepsState ==
  [][lastEvent'.op \in CustomRules
       => /\ state'.tokens = state.tokens
          /\ state'.line = state.line
          /\ state'.env = state.env]_vars

\* the definition rule returned true in validation mode
C35_Witness ==
  /\ lastEvent.op = "reference"
  /\ lastEvent.had # {}

-----------------------------------------------------------------------------
(* parentType and lineMax over a call of a rule *)

\* the block rules in the order the tokenizer tries them
Chain ==
  <<"code", "div", "myst_line_comment", "myst_block_break", "myst_target", "reference",
    "paragraph">>

\* the place of a rule in the chain
Place(rule) == CHOOSE i \in DOMAIN Chain : Chain[i] = rule

\* rule(state, line, endLine, false)
RuleResult(rule, st, L) ==
  CASE rule = "myst_line_comment" -> parse_line_comment(st, L, st.lineMax, FALSE)
    [] rule = "myst_block_break" -> parse_block_break(st, L, st.lineMax, FALSE)
    [] rule = "myst_target" -> parse_target(st, L, st.lineMax, FALSE)
    [] rule = "div" -> parseDiv(st, L, st.lineMax, FALSE)
    [] rule = "reference" -> reference(st, L, st.lineMax, FALSE)

\* C36 (as stated; violated): every custom rule that the tokenizer calls in
\* a turn of its loop (the rules up to the one that accepts), whether it
\* accepts or declines, leaves parentType and lineMax as they were when it
\* was called.
C36_FrameRestored ==
  [][IsTurn
       => LET st == [state EXCEPT !.line = TurnLine]
          IN \A rule \in CustomRules :
               Place(rule) <= Place(lastEvent'.op)
                 => /\ RuleResult(rule, st, TurnLine).st.parentType = st.parentType
                    /\ RuleResult(rule, st, TurnLine).st.lineMax = st.lineMax]_vars

-----------------------------------------------------------------------------
(* The span of a definition *)

\* C37 (as stated; violated): the definition rule, accepting at a line,
\* pushes a token with the span from that line to the line at which the
\* tokenizer goes on, so that the span is not empty (a definition of one
\* line n has the span [n, n + 1)); and the line index the parse ends with
\* has the token at every line of the definition.
C37_DefinitionSpan ==
  [][/\ (IsTurn /\ lastEvent'.op = "reference")
          => LET t == state'.tokens[Len(state'.tokens)]
                 L == reference([state EXCEPT !.line = TurnLine], TurnLine,
                                state.lineMax, FALSE).st.line
             IN /\ t.type = "definition"
                /\ t.map = <<TurnLine, L>>
                /\ t.map[1] < t.map[2]
     /\ (state.phase = "block" /\ state'.phase = "done")
          => \A i \in DOMAIN state'.tokens :
               state'.tokens[i].type = "definition"
                 => (i - 1) \in Range(Entry(state'.lineToTokenIndex,
                                            state'.tokens[i].map[1]))]_vars

-----------------------------------------------------------------------------
(* The relation after setParentToChildUri and removeUri *)

\* C38: in every state every entry of the relation of parents and children
\* has a child set that is not empty; and after removeUri(uri) the URI is
\* no parent of the relation and in no child set.
C38_RelationPruned ==
  /\ \A i \in DOMAIN cache.parentToChildUri : cache.parentToChildUri[i].children # <<>>
  /\ lastEvent.op = "removeUri"
       => /\ ~HasParent(cache.parentToChildUri, lastEvent.uri)
          /\ ParentsOf(cache, lastEvent.uri) = {}

\* removeUri ran on a URI that was a parent and the only child of another
\* parent, whose entry is gone with it
C38_Witness ==
  /\ lastEvent.op = "removeUri"
  /\ lastEvent.cells # {}
  /\ \E p \in lastEvent.parents :
       p # lastEvent.uri /\ ~HasParent(cache.parentToChildUri, p)

====
